---- MODULE Spec2Model ----
(***************************************************************************)
(* State-machine model of the tower-defense client (Game, TroopController, *)
(* EnemyController, WaveManager, Devvit) and of the save/load/game-over    *)
(* endpoints of the server.                                                *)
(*                                                                         *)
(* Units.  Times are milliseconds, as in the code.  Enemy positions are    *)
(* kept in 1/PosScale of a grid unit and speeds as twice the configured    *)
(* speed, so that speed*deltaTime/1000 grid units is the integer           *)
(* speed2*deltaTime position units.                                        *)
(*                                                                         *)
(* Encodings.  A troop's currentTargetId is -1 for undefined, 0 for null   *)
(* and the enemy id otherwise.  currentWaveConfig = << >> stands for null  *)
(* (every generated wave has at least one group).  A wave group's pathId   *)
(* "" stands for undefined.  Troop objects live in troopHeap and the three *)
(* troop lists hold addresses into it, because the code pushes one and the *)
(* same object on all three lists.                                         *)
(***************************************************************************)
EXTENDS Integers, Sequences, FiniteSets, TLC

----------------------------------------------------------------------------
(* Bounds of the exploration *)

\* startNextWave callbacks and restarts are explored while the sequencer
\* index is below this bound
MaxWaveIndex == 3
\* ticks are explored while every placed troop's attack timer is above
\* -MaxIdleTicks seconds
MaxIdleTicks == 2
\* placements are explored while the sequencer index is below this bound
MaxPlaceWave == 1
\* ticks are explored until this many enemies have been spawned
MaxEnemies == 25
\* calls of getNextWave explored by the wave-sequencer specification
MaxCalls == 14
\* enemies spawned by the enemy-registry specification
MaxSpawn == 3
\* sessions (page loads) explored by the persistence specification
MaxSessions == 2
\* the persistence specification explores ticks until this many enemies
\* have been spawned in a session
MaxSessionEnemies == 7
\* the persistence specification explores a page load once this many enemy
\* ids have been used
MinReloadEnemies == 7
\* the persistence specification explores a step of the client that may
\* send a request while fewer than this many requests are in flight
MaxInFlight == 1

----------------------------------------------------------------------------
(* Program constants *)

GridWidth == 10
GridHeight == 6
StartMoney == 100
StartLives == 20
SpawnIntervalMs == 1000
LastWaveGuard == 10
NormalWaves == 8
PosScale == 2 * 1000

TroopTypes == {"infantry", "archer", "mage", "cannon"}
EnemyTypes == {"goblin", "orc", "ogre"}

\* TROOP_CONFIG; fireRate10 is ten times the configured fireRate
TROOP_CONFIG ==
  [t \in TroopTypes |->
     CASE t = "infantry" -> [cost |-> 10, range |-> 2, damage |-> 1, fireRate10 |-> 10]
       [] t = "archer"   -> [cost |-> 15, range |-> 4, damage |-> 1, fireRate10 |-> 12]
       [] t = "mage"     -> [cost |-> 25, range |-> 3, damage |-> 2, fireRate10 |-> 8]
       [] t = "cannon"   -> [cost |-> 50, range |-> 5, damage |-> 5, fireRate10 |-> 5]]

\* ENEMY_CONFIG of the Game (reward) and of EnemyController.spawnEnemy
\* (health, speed); speed2 is twice the configured speed
ENEMY_CONFIG ==
  [t \in EnemyTypes |->
     CASE t = "goblin" -> [health |-> 5,  speed2 |-> 4, reward |-> 1]
       [] t = "orc"    -> [health |-> 10, speed2 |-> 3, reward |-> 3]
       [] t = "ogre"   -> [health |-> 25, speed2 |-> 2, reward |-> 5]]

\* 1000 / fireRate, the cooldown set after an attack
CooldownMs(fireRate10) == 10000 \div fireRate10

\* tile obstacles assigned by Game.prepare
Obstacle(x, y) ==
  IF (x = 3 /\ y = 2) \/ (x = 6 /\ y = 4) THEN "rock" ELSE "none"

\* mapGrid.tiles[y]?.[x] is defined
TileExists(x, y) == x \in 0..(GridWidth - 1) /\ y \in 0..(GridHeight - 1)

\* the two paths of mapGrid.paths
GroundPath ==
  [id |-> "main",
   waypoints |-> [i \in 1..GridWidth |-> [x |-> i - 1, y |-> GridHeight \div 2]]]

AirPath ==
  [id |-> "fly",
   waypoints |-> << [x |-> 0, y |-> 1], [x |-> 3, y |-> 0],
                    [x |-> 6, y |-> 5], [x |-> 9, y |-> 4] >>]

Paths == << GroundPath, AirPath >>

\* a path with no waypoints, as a caller of the EnemyController may pass
EmptyPath == [id |-> "none", waypoints |-> << >>]

\* mapGrid.paths.find((p) => p.id === id): the set holding the first match
FindPath(id) ==
  LET hits == {i \in 1..Len(Paths) : Paths[i].id = id}
  IN  IF hits = {} THEN {}
      ELSE {Paths[CHOOSE i \in hits : \A j \in hits : i <= j]}

----------------------------------------------------------------------------
(* WaveManager *)

\* WaveManager.generateWaves; announcement i stands for `Wave ${i}` and 0
\* for 'Boss Wave!'
GenerateWaves ==
  [i \in 1..(NormalWaves + 1) |->
     IF i <= NormalWaves
     THEN [enemies |->
             << [type |-> "goblin", count |-> 4 + i * 2, pathId |-> ""] >> \o
             (IF i > 3 THEN << [type |-> "orc", count |-> i \div 2, pathId |-> ""] >>
                       ELSE << >>),
           isBoss |-> FALSE, announcement |-> i]
     ELSE [enemies |->
             << [type |-> "ogre", count |-> 1, pathId |-> ""],
                [type |-> "orc", count |-> 4, pathId |-> ""],
                [type |-> "goblin", count |-> 8, pathId |-> ""] >>,
           isBoss |-> TRUE, announcement |-> 0]]

\* the 'no more waves' sentinel (null)
NoWave == [enemies |-> << >>, isBoss |-> FALSE, announcement |-> -1]

\* WaveManager.getNextWave on index idx: the new index and the value returned
GetNextWaveBroken(idx) ==
  [index |-> idx + 1,
   wave  |-> IF idx + 1 <= Len(GenerateWaves) /\ idx >= 0
             THEN GenerateWaves[idx + 1] ELSE NoWave]

GetNextWaveRepeatLast(idx) ==
  [index |-> idx + 1,
   wave  |-> IF idx + 1 < Len(GenerateWaves) THEN GenerateWaves[idx + 2]
             ELSE GenerateWaves[Len(GenerateWaves)]]

GetNextWave(idx) ==
  [index |-> idx + 1,
   wave  |-> IF idx + 1 < Len(GenerateWaves) THEN GenerateWaves[idx + 2] ELSE NoWave]

\* WaveManager.getCurrentWaveNumber
GetCurrentWaveNumber(idx) == idx + 1

\* WaveManager.isGameOver
IsGameOver(idx) == idx >= Len(GenerateWaves)

----------------------------------------------------------------------------
(* State *)

VARIABLES
  state,              \* Game.state
  money,              \* playerState.money
  lives,              \* playerState.lives
  currentWave,        \* playerState.currentWave
  psTroops,           \* playerState.troops (addresses into troopHeap)
  occupied,           \* tiles <<x, y>> whose occupied flag is set
  troopHeap,          \* the Troop objects
  tcTroops,           \* TroopController.troops (addresses)
  gameTroops,         \* Game.troops (addresses)
  troopAttackTimers,  \* Game.troopAttackTimers: troop id -> ms
  activeTargetLines,  \* Game.activeTargetLines: troop ids
  ecEnemies,          \* EnemyController.enemies
  ecMeshes,           \* keys of EnemyController.enemyMeshes
  gameEnemies,        \* Game.enemies
  waveInProgress,     \* Game.waveInProgress
  waveTimer,          \* Game.waveTimer
  currentWaveConfig,  \* Game.currentWaveConfig
  currentWaveIndex,   \* WaveManager.currentWaveIndex
  pendingNextWave,    \* scheduled setTimeout(() => startNextWave(), 3000)
  pendingRestart,     \* scheduled restart callbacks of restartGame
  tickerRunning,      \* the Ticker makes its per-frame callback
  hasUser,            \* postId and userId are both set
  net,                \* requests sent and not yet handled by the server
  store,              \* redis value under game_state:<postId>:<userId>
  nextEnemyId,        \* stands for the unique part of an enemy id
  nextTroopId,        \* stands for Date.now() in a troop id
  nextMsgId,          \* distinguishes requests in flight
  fate,               \* history: per enemy id, what happened to it
  hist,               \* history: calls and sessions counted, snapshot saved
  probe               \* history: the last operation and what it observed

vars == << state, money, lives, currentWave, psTroops, occupied, troopHeap,
           tcTroops, gameTroops, troopAttackTimers, activeTargetLines,
           ecEnemies, ecMeshes, gameEnemies, waveInProgress, waveTimer,
           currentWaveConfig, currentWaveIndex, pendingNextWave,
           pendingRestart, tickerRunning, hasUser, net, store, nextEnemyId,
           nextTroopId, nextMsgId, fate, hist, probe >>

\* the client and its collaborators as one value, so that a handler is the
\* composition of the calls it makes
Cur ==
  [state |-> state, money |-> money, lives |-> lives,
   currentWave |-> currentWave, psTroops |-> psTroops, occupied |-> occupied,
   heap |-> troopHeap, tcTroops |-> tcTroops, gameTroops |-> gameTroops,
   timers |-> troopAttackTimers, lines |-> activeTargetLines,
   enemies |-> ecEnemies, meshes |-> ecMeshes, gameEnemies |-> gameEnemies,
   waveInProgress |-> waveInProgress, waveTimer |-> waveTimer,
   waveConfig |-> currentWaveConfig, waveIndex |-> currentWaveIndex,
   pendingNextWave |-> pendingNextWave, pendingRestart |-> pendingRestart,
   running |-> tickerRunning,
   hasUser |-> hasUser, net |-> net, nextEnemyId |-> nextEnemyId,
   nextTroopId |-> nextTroopId, nextMsgId |-> nextMsgId, fate |-> fate]

Commit(g) ==
  /\ state' = g.state
  /\ money' = g.money
  /\ lives' = g.lives
  /\ currentWave' = g.currentWave
  /\ psTroops' = g.psTroops
  /\ occupied' = g.occupied
  /\ troopHeap' = g.heap
  /\ tcTroops' = g.tcTroops
  /\ gameTroops' = g.gameTroops
  /\ troopAttackTimers' = g.timers
  /\ activeTargetLines' = g.lines
  /\ ecEnemies' = g.enemies
  /\ ecMeshes' = g.meshes
  /\ gameEnemies' = g.gameEnemies
  /\ waveInProgress' = g.waveInProgress
  /\ waveTimer' = g.waveTimer
  /\ currentWaveConfig' = g.waveConfig
  /\ currentWaveIndex' = g.waveIndex
  /\ pendingNextWave' = g.pendingNextWave
  /\ pendingRestart' = g.pendingRestart
  /\ tickerRunning' = g.running
  /\ hasUser' = g.hasUser
  /\ net' = g.net
  /\ nextEnemyId' = g.nextEnemyId
  /\ nextTroopId' = g.nextTroopId
  /\ nextMsgId' = g.nextMsgId
  /\ fate' = g.fate

NoFate ==
  [lost |-> 0, reward |-> 0, scene |-> 0, left |-> 0, livesLeft |-> StartLives,
   path |-> ""]

Abs(n) == IF n < 0 THEN -n ELSE n

----------------------------------------------------------------------------
(* EnemyController *)

\* ids of the live-enemy collection
LiveIds(g) == {g.enemies[i].id : i \in 1..Len(g.enemies)}

\* EnemyController.spawnEnemy(type, path); it throws, and changes nothing,
\* when the path has no first waypoint
SpawnEnemyECAtLast(g, type, path) ==
  IF Len(path.waypoints) = 0 THEN g
  ELSE
  LET startTile == path.waypoints[Len(path.waypoints)]
      enemy == [id |-> g.nextEnemyId, type |-> type,
                health |-> ENEMY_CONFIG[type].health,
                speed2 |-> ENEMY_CONFIG[type].speed2,
                x |-> startTile.x * PosScale, y |-> startTile.y * PosScale,
                pathIndex |-> 0]
  IN  [g EXCEPT !.enemies = Append(@, enemy),
                !.meshes = @ \cup {enemy.id},
                !.nextEnemyId = @ + 1,
                !.fate = [i \in 1..g.nextEnemyId |->
                            IF i = g.nextEnemyId
                            THEN [NoFate EXCEPT !.path = path.id]
                            ELSE g.fate[i]]]

SpawnEnemyEC(g, type, path) ==
  IF Len(path.waypoints) = 0 THEN g
  ELSE
  LET startTile == path.waypoints[1]
      enemy == [id |-> g.nextEnemyId, type |-> type,
                health |-> ENEMY_CONFIG[type].health,
                speed2 |-> ENEMY_CONFIG[type].speed2,
                x |-> startTile.x * PosScale, y |-> startTile.y * PosScale,
                pathIndex |-> 0]
  IN  [g EXCEPT !.enemies = Append(@, enemy),
                !.meshes = @ \cup {enemy.id},
                !.nextEnemyId = @ + 1,
                !.fate = [i \in 1..g.nextEnemyId |->
                            IF i = g.nextEnemyId
                            THEN [NoFate EXCEPT !.path = path.id]
                            ELSE g.fate[i]]]

\* history: sceneRemove was called for the mesh of id; id left the collection
NoteRemoval(f, id, hadMesh, wasLive) ==
  [i \in DOMAIN f |->
     IF i = id
     THEN [f[i] EXCEPT !.scene = @ + (IF hadMesh THEN 1 ELSE 0),
                       !.left = @ + (IF wasLive THEN 1 ELSE 0)]
     ELSE f[i]]

\* EnemyController.removeEnemy(enemyId)
RemoveEnemyECNoGuard(g, id) ==
  [g EXCEPT !.meshes = @ \ {id},
            !.enemies = SelectSeq(@, LAMBDA e : e.id # id),
            !.fate = NoteRemoval(@, id, TRUE, id \in LiveIds(g))]

RemoveEnemyEC(g, id) ==
  [g EXCEPT !.meshes = @ \ {id},
            !.enemies = SelectSeq(@, LAMBDA e : e.id # id),
            !.fate = NoteRemoval(@, id, id \in g.meshes, id \in LiveIds(g))]

----------------------------------------------------------------------------
(* Persistence: JSON and the snapshot *)

\* JSON.stringify of a Troop: a property whose value is undefined
\* (currentTargetId -1) is left out, null is written as null
StringifyTroop(t) ==
  IF t.target = -1
  THEN [id |-> t.id, type |-> t.type, x |-> t.x, y |-> t.y, level |-> t.level,
        range |-> t.range, damage |-> t.damage, fireRate10 |-> t.fireRate10,
        cost |-> t.cost]
  ELSE [id |-> t.id, type |-> t.type, x |-> t.x, y |-> t.y, level |-> t.level,
        range |-> t.range, damage |-> t.damage, fireRate10 |-> t.fireRate10,
        cost |-> t.cost, currentTargetId |-> t.target]

\* JSON.parse of a Troop: a property that is absent reads as undefined
ParseTroop(j) ==
  [id |-> j.id, type |-> j.type, x |-> j.x, y |-> j.y, level |-> j.level,
   range |-> j.range, damage |-> j.damage, fireRate10 |-> j.fireRate10,
   cost |-> j.cost,
   target |-> IF "currentTargetId" \in DOMAIN j THEN j.currentTargetId ELSE -1]

\* the PersistedGameState built by Game.saveState, as JSON text: the troop
\* list is written by value, whatever lists share its objects
Stringify(g) ==
  [money |-> g.money, lives |-> g.lives, currentWave |-> g.currentWave,
   troops |-> [i \in 1..Len(g.psTroops) |-> StringifyTroop(g.heap[g.psTroops[i]])]]

\* JSON.parse followed by JSON.stringify, as done by the server on a body
Reencode(json) ==
  [json EXCEPT !.troops = [i \in 1..Len(json.troops) |->
                             StringifyTroop(ParseTroop(json.troops[i]))]]

\* the PlayerState by value: what a comparison of two PlayerStates reads
PlayerStateOf(g) ==
  [money |-> g.money, lives |-> g.lives, currentWave |-> g.currentWave,
   troops |-> [i \in 1..Len(g.psTroops) |-> g.heap[g.psTroops[i]]]]

\* Game.saveState: fire and forget; the request body is serialised at once
\* (src is history: the PlayerState the body was made from)
SaveState(g) ==
  IF ~g.hasUser THEN g
  ELSE [g EXCEPT !.net = @ \cup {[kind |-> "save", seq |-> g.nextMsgId,
                                  body |-> Stringify(g),
                                  src |-> PlayerStateOf(g)]},
                 !.nextMsgId = @ + 1]

\* Game.restoreState: the parsed troops are new objects
RestoreStateDropTroops(g, json) ==
  [g EXCEPT !.money = json.money, !.lives = json.lives,
            !.currentWave = json.currentWave]

RestoreState(g, json) ==
  [g EXCEPT !.money = json.money, !.lives = json.lives,
            !.currentWave = json.currentWave,
            !.heap = @ \o [i \in 1..Len(json.troops) |-> ParseTroop(json.troops[i])],
            !.psTroops = [i \in 1..Len(json.troops) |-> Len(g.heap) + i]]

----------------------------------------------------------------------------
(* Game: state transitions and waves *)

EndGameUnguarded(g, playerWon) ==
  IF ~g.hasUser THEN [g EXCEPT !.state = "ended"]
  ELSE [g EXCEPT !.state = "ended",
                 !.net = @ \cup {[kind |-> "gameOver", seq |-> g.nextMsgId,
                                  score |-> g.money + g.currentWave * 100,
                                  won |-> playerWon]},
                 !.nextMsgId = @ + 1]

\* Game.endGame up to its first await: the score request is sent by
\* Devvit.gameOver unless it throws for a missing user
EndGame(g, playerWon) ==
  IF g.state = "ended" THEN g
  ELSE IF ~g.hasUser THEN [g EXCEPT !.state = "ended"]
  ELSE [g EXCEPT !.state = "ended",
                 !.net = @ \cup {[kind |-> "gameOver", seq |-> g.nextMsgId,
                                  score |-> g.money + g.currentWave * 100,
                                  won |-> playerWon]},
                 !.nextMsgId = @ + 1]

\* Game.startNextWave
StartNextWave(g) ==
  LET r  == GetNextWave(g.waveIndex)
      g1 == [g EXCEPT !.waveIndex = r.index]
  IN  IF r.wave = NoWave THEN EndGame(g1, TRUE)
      ELSE SaveState(
             [g1 EXCEPT !.currentWave = GetCurrentWaveNumber(r.index),
                        !.waveInProgress = TRUE,
                        !.waveConfig =
                           [i \in 1..Len(r.wave.enemies) |->
                              [type |-> r.wave.enemies[i].type,
                               count |-> r.wave.enemies[i].count,
                               spawned |-> 0,
                               pathId |-> r.wave.enemies[i].pathId]],
                        !.waveTimer = 0])

\* Game.startGame
StartGame(g) ==
  IF g.state = "playing" THEN g
  ELSE StartNextWave([g EXCEPT !.state = "playing"])

\* Game.spawnEnemy(type, pathId)
SpawnEnemy(g, type, pathId) ==
  LET found == FindPath(IF pathId = "" THEN "main" ELSE pathId)
  IN  IF found = {} THEN g
      ELSE LET path == CHOOSE p \in found : TRUE
           IN  IF Len(path.waypoints) = 0 THEN g
               ELSE SpawnEnemyEC(g, type, path)

----------------------------------------------------------------------------
(* Game.updateEnemies *)

\* first group of the wave that is not fully spawned, 0 if there is none
FirstPending(config) ==
  LET open == {i \in 1..Len(config) : config[i].spawned < config[i].count}
  IN  IF open = {} THEN 0 ELSE CHOOSE i \in open : \A j \in open : i <= j

SpawnPhaseLastGroup(g, deltaTime) ==
  IF ~(g.waveInProgress /\ g.waveConfig # << >>) THEN g
  ELSE LET g1 == [g EXCEPT !.waveTimer = @ - deltaTime]
           open == {i \in 1..Len(g1.waveConfig) :
                      g1.waveConfig[i].spawned < g1.waveConfig[i].count}
           k  == IF open = {} THEN 0
                 ELSE CHOOSE i \in open : \A j \in open : i >= j
       IN  IF g1.waveTimer > 0 \/ k = 0 THEN g1
           ELSE [SpawnEnemy(g1, g1.waveConfig[k].type, g1.waveConfig[k].pathId)
                   EXCEPT !.waveConfig[k].spawned = @ + 1,
                          !.waveTimer = SpawnIntervalMs]

\* lines 907-923: the spawn timer and at most one spawn
SpawnPhase(g, deltaTime) ==
  IF ~(g.waveInProgress /\ g.waveConfig # << >>) THEN g
  ELSE LET g1 == [g EXCEPT !.waveTimer = @ - deltaTime]
           k  == FirstPending(g1.waveConfig)
       IN  IF g1.waveTimer > 0 \/ k = 0 THEN g1
           ELSE [SpawnEnemy(g1, g1.waveConfig[k].type, g1.waveConfig[k].pathId)
                   EXCEPT !.waveConfig[k].spawned = @ + 1,
                          !.waveTimer = SpawnIntervalMs]

\* integer square root by bisection, for a step that is not along an axis:
\* lo * lo <= n < hi * hi
RECURSIVE ISqrtBetween(_, _, _)
ISqrtBetween(n, lo, hi) ==
  IF hi - lo <= 1 THEN lo
  ELSE LET mid == (lo + hi) \div 2
       IN  IF mid * mid <= n THEN ISqrtBetween(n, mid, hi)
           ELSE ISqrtBetween(n, lo, mid)

\* Math.sqrt(dx * dx + dy * dy), exact when the step is along an axis
Distance(dx, dy) ==
  IF dy = 0 THEN Abs(dx)
  ELSE IF dx = 0 THEN Abs(dy)
  ELSE ISqrtBetween(dx * dx + dy * dy, 0, 32 * 1024)

\* lines 941-962: one enemy's step toward the waypoint at pathIndex + 1 of
\* the path 'main'
MoveEnemyNoAdvance(e, deltaTime) ==
  LET target    == GroundPath.waypoints[e.pathIndex + 2]
      dx        == target.x * PosScale - e.x
      dy        == target.y * PosScale - e.y
      distance  == Distance(dx, dy)
      moveSpeed == e.speed2 * deltaTime
  IN  IF distance < moveSpeed
      THEN [e EXCEPT !.x = target.x * PosScale, !.y = target.y * PosScale]
      ELSE [e EXCEPT !.x = @ + (dx * moveSpeed) \div distance,
                     !.y = @ + (dy * moveSpeed) \div distance]

MoveEnemyOvershoots(e, deltaTime) ==
  LET target    == GroundPath.waypoints[e.pathIndex + 2]
      dx        == target.x * PosScale - e.x
      dy        == target.y * PosScale - e.y
      distance  == Distance(dx, dy)
      moveSpeed == e.speed2 * deltaTime
  IN  IF distance = 0
      THEN [e EXCEPT !.pathIndex = @ + 1]
      ELSE IF distance < moveSpeed
      THEN [e EXCEPT !.x = @ + (dx * moveSpeed) \div distance,
                     !.y = @ + (dy * moveSpeed) \div distance,
                     !.pathIndex = @ + 1]
      ELSE [e EXCEPT !.x = @ + (dx * moveSpeed) \div distance,
                     !.y = @ + (dy * moveSpeed) \div distance]

MoveEnemySkipsWaypoint(e, deltaTime) ==
  LET target    == GroundPath.waypoints[e.pathIndex + 2]
      dx        == target.x * PosScale - e.x
      dy        == target.y * PosScale - e.y
      distance  == Distance(dx, dy)
      moveSpeed == e.speed2 * deltaTime
  IN  IF distance < moveSpeed
      THEN [e EXCEPT !.x = target.x * PosScale, !.y = target.y * PosScale,
                     !.pathIndex = @ + 2]
      ELSE [e EXCEPT !.x = @ + (dx * moveSpeed) \div distance,
                     !.y = @ + (dy * moveSpeed) \div distance]

MoveEnemy(e, deltaTime) ==
  LET target    == GroundPath.waypoints[e.pathIndex + 2]
      dx        == target.x * PosScale - e.x
      dy        == target.y * PosScale - e.y
      distance  == Distance(dx, dy)
      moveSpeed == e.speed2 * deltaTime
  IN  IF distance < moveSpeed
      THEN [e EXCEPT !.x = target.x * PosScale, !.y = target.y * PosScale,
                     !.pathIndex = @ + 1]
      ELSE [e EXCEPT !.x = @ + (dx * moveSpeed) \div distance,
                     !.y = @ + (dy * moveSpeed) \div distance]

\* history: an enemy was counted as a lost life
NoteLost(f, id, livesLeft) ==
  [f EXCEPT ![id].lost = @ + 1, ![id].livesLeft = livesLeft]

\* lines 930-939: the enemy is at the last waypoint
ReachEndKeepEnemy(g, e) ==
  LET g1 == [g EXCEPT !.lives = @ - 1, !.fate = NoteLost(@, e.id, g.lives - 1)]
  IN  IF g1.lives <= 0 THEN EndGame(g1, FALSE) ELSE g1

ReachEndRewarded(g, e) ==
  LET g1 == [g EXCEPT !.lives = @ - 1, !.fate = NoteLost(@, e.id, g.lives - 1)]
      g2 == RemoveEnemyEC(g1, e.id)
      g3 == [g2 EXCEPT !.money = @ + ENEMY_CONFIG[e.type].reward,
                       !.fate = [@ EXCEPT ![e.id].reward = @ + 1]]
  IN  IF g3.lives <= 0 THEN EndGame(g3, FALSE) ELSE g3

ReachEnd(g, e) ==
  LET g1 == [g EXCEPT !.lives = @ - 1, !.fate = NoteLost(@, e.id, g.lives - 1)]
      g2 == RemoveEnemyEC(g1, e.id)
  IN  IF g2.lives <= 0 THEN EndGame(g2, FALSE) ELSE g2

RECURSIVE EnemyLoopOldestFirst(_, _, _, _)
EnemyLoopOldestFirst(g, snap, i, deltaTime) ==
  IF i = 0 THEN g
  ELSE LET e == snap[Len(snap) - i + 1]
           last == Len(GroundPath.waypoints) - 1
           g1 == IF e.pathIndex >= last THEN ReachEnd(g, e)
                 ELSE [g EXCEPT !.enemies =
                         [k \in 1..Len(g.enemies) |->
                            IF g.enemies[k].id = e.id
                            THEN MoveEnemy(g.enemies[k], deltaTime)
                            ELSE g.enemies[k]]]
       IN  CHOOSE r \in {EnemyLoopOldestFirst(v, snap, i - 1, deltaTime) :
                           v \in {g1}} : TRUE

\* lines 925-964: the loop over the array returned by getAll(), last first;
\* snap is that array, which removeEnemy does not change (filter builds a
\* new one)
RECURSIVE EnemyLoop(_, _, _, _)
EnemyLoop(g, snap, i, deltaTime) ==
  IF i = 0 THEN g
  ELSE LET e == snap[i]
           last == Len(GroundPath.waypoints) - 1
           g1 == IF e.pathIndex >= last THEN ReachEnd(g, e)
                 ELSE [g EXCEPT !.enemies =
                         [k \in 1..Len(g.enemies) |->
                            IF g.enemies[k].id = e.id
                            THEN MoveEnemy(g.enemies[k], deltaTime)
                            ELSE g.enemies[k]]]
       IN  CHOOSE r \in {EnemyLoop(v, snap, i - 1, deltaTime) : v \in {g1}} :
             TRUE

\* lines 965-987: the wave-complete check
WaveCompleteCheck(g) ==
  IF g.waveInProgress /\ g.waveConfig # << >> /\ Len(g.enemies) = 0
     /\ FirstPending(g.waveConfig) = 0
  THEN LET g1 == [g EXCEPT !.waveInProgress = FALSE]
       IN  IF g1.currentWave < LastWaveGuard
           THEN [g1 EXCEPT !.pendingNextWave = @ + 1]
           ELSE EndGame(g1, TRUE)
  ELSE g

\* Game.updateEnemies: g1 after the spawn phase, g2 after the loop over
\* the enemies (bound as set elements, so that each is evaluated once)
UpdateEnemies(g, deltaTime) ==
  CHOOSE r \in
    {WaveCompleteCheck(g2) :
       g2 \in {EnemyLoop(g1, g1.enemies, Len(g1.enemies), deltaTime) :
                 g1 \in {SpawnPhase(g, deltaTime)}}} : TRUE

----------------------------------------------------------------------------
(* TroopController.attack and Game.updateTroops *)

\* squared distance between the troop's tile centre and the enemy, in
\* position units (both centres carry the same tileSize / 2 offset)
DistanceSq(troop, enemy) ==
  (troop.x * PosScale - enemy.x) * (troop.x * PosScale - enemy.x)
  + (troop.y * PosScale - enemy.y) * (troop.y * PosScale - enemy.y)

\* TroopController.attack(troop, enemies): the index of the enemy returned,
\* 0 for null; a later enemy replaces the candidate only when strictly closer
RECURSIVE AttackScanLastOfTies(_, _, _, _)
AttackScanLastOfTies(troop, enemies, i, best) ==
  IF i > Len(enemies) THEN best
  ELSE LET d == DistanceSq(troop, enemies[i])
           r == troop.range * PosScale
       IN  IF d < r * r /\ (best = 0 \/ d <= DistanceSq(troop, enemies[best]))
           THEN AttackScanLastOfTies(troop, enemies, i + 1, i)
           ELSE AttackScanLastOfTies(troop, enemies, i + 1, best)

RECURSIVE AttackScan(_, _, _, _)
AttackScan(troop, enemies, i, best) ==
  IF i > Len(enemies) THEN best
  ELSE LET d == DistanceSq(troop, enemies[i])
           r == troop.range * PosScale
       IN  IF d < r * r /\ (best = 0 \/ d < DistanceSq(troop, enemies[best]))
           THEN AttackScan(troop, enemies, i + 1, i)
           ELSE AttackScan(troop, enemies, i + 1, best)

Attack(troop, enemies) == AttackScan(troop, enemies, 1, 0)

\* Map.set
Put(f, k, v) == [x \in DOMAIN f \cup {k} |-> IF x = k THEN v ELSE f[x]]

\* this.troopAttackTimers.get(id) || 0
TimerOf(timers, id) == IF id \in DOMAIN timers THEN timers[id] ELSE 0

\* targetEnemy.health -= damage acts on the Enemy object, which is the same
\* object in every list that holds it
Damage(list, id, amount) ==
  [k \in 1..Len(list) |->
     IF list[k].id = id THEN [list[k] EXCEPT !.health = @ - amount] ELSE list[k]]

\* history: a reward was paid for the enemy
NoteReward(f, id) == [f EXCEPT ![id].reward = @ + 1]

\* lines 1074-1090: the troop at address a attacks enemies[t]
Hit(g, a, t) ==
  LET troop  == g.heap[a]
      enemy  == g.gameEnemies[t]
      g1 == [g EXCEPT !.gameEnemies = Damage(@, enemy.id, troop.damage),
                      !.enemies = Damage(@, enemy.id, troop.damage),
                      !.lines = @ \cup {troop.id},
                      !.timers = Put(@, troop.id, CooldownMs(troop.fireRate10))]
  IN  IF enemy.health - troop.damage <= 0
      THEN LET g2 == [g1 EXCEPT !.money = @ + ENEMY_CONFIG[enemy.type].reward,
                                !.fate = NoteReward(@, enemy.id)]
           IN  [RemoveEnemyEC(g2, enemy.id) EXCEPT !.lines = @ \ {troop.id}]
      ELSE g1

\* lines 1061-1094: the loop over troopController.getAll(); the enemies
\* handed to attack() are Game.enemies
RECURSIVE TroopLoopClearsTarget(_, _, _)
TroopLoopClearsTarget(g, i, deltaTime) ==
  IF i > Len(g.tcTroops) THEN g
  ELSE LET a == g.tcTroops[i]
           id == g.heap[a].id
           timeUntilAttack == TimerOf(g.timers, id) - deltaTime
           g1 == [g EXCEPT !.timers = Put(@, id, timeUntilAttack)]
       IN  IF timeUntilAttack > 0
           THEN TroopLoopClearsTarget(
                  [g1 EXCEPT !.heap[a].target =
                     IF @ \in LiveIds(g1) THEN @ ELSE 0], i + 1, deltaTime)
           ELSE LET t  == Attack(g1.heap[a], g1.gameEnemies)
                    g2 == [g1 EXCEPT !.heap[a].target =
                             IF t = 0 THEN 0 ELSE g1.gameEnemies[t].id]
                IN  IF t # 0
                    THEN TroopLoopClearsTarget(Hit(g2, a, t), i + 1, deltaTime)
                    ELSE TroopLoopClearsTarget([g2 EXCEPT !.lines = @ \ {id}],
                                               i + 1, deltaTime)

RECURSIVE TroopLoopIdleKeeps(_, _, _)
TroopLoopIdleKeeps(g, i, deltaTime) ==
  IF i > Len(g.tcTroops) THEN g
  ELSE LET a == g.tcTroops[i]
           id == g.heap[a].id
           timeUntilAttack == TimerOf(g.timers, id) - deltaTime
           g1 == [g EXCEPT !.timers = Put(@, id, timeUntilAttack)]
       IN  IF timeUntilAttack > 0 THEN TroopLoopIdleKeeps(g1, i + 1, deltaTime)
           ELSE LET t  == Attack(g1.heap[a], g1.gameEnemies)
                    g2 == [g EXCEPT !.heap[a].target =
                             IF t = 0 THEN 0 ELSE g1.gameEnemies[t].id]
                IN  IF t # 0 THEN TroopLoopIdleKeeps(Hit(g2, a, t), i + 1, deltaTime)
                    ELSE TroopLoopIdleKeeps([g2 EXCEPT !.lines = @ \ {id}],
                                            i + 1, deltaTime)

RECURSIVE TroopLoopNoCooldown(_, _, _)
TroopLoopNoCooldown(g, i, deltaTime) ==
  IF i > Len(g.tcTroops) THEN g
  ELSE LET a == g.tcTroops[i]
           id == g.heap[a].id
           timeUntilAttack == TimerOf(g.timers, id) - deltaTime
           g1 == [g EXCEPT !.timers = Put(@, id, timeUntilAttack)]
           t  == Attack(g1.heap[a], g1.gameEnemies)
           g2 == [g1 EXCEPT !.heap[a].target =
                    IF t = 0 THEN 0 ELSE g1.gameEnemies[t].id]
       IN  IF t # 0 THEN TroopLoopNoCooldown(Hit(g2, a, t), i + 1, deltaTime)
           ELSE TroopLoopNoCooldown([g2 EXCEPT !.lines = @ \ {id}], i + 1,
                                    deltaTime)

RECURSIVE TroopLoop(_, _, _)
TroopLoop(g, i, deltaTime) ==
  IF i > Len(g.tcTroops) THEN g
  ELSE LET a == g.tcTroops[i]
           id == g.heap[a].id
           timeUntilAttack == TimerOf(g.timers, id) - deltaTime
           g1 == [g EXCEPT !.timers = Put(@, id, timeUntilAttack)]
       IN  IF timeUntilAttack > 0 THEN TroopLoop(g1, i + 1, deltaTime)
           ELSE LET t  == Attack(g1.heap[a], g1.gameEnemies)
                    g2 == [g1 EXCEPT !.heap[a].target =
                             IF t = 0 THEN 0 ELSE g1.gameEnemies[t].id]
                IN  IF t # 0 THEN TroopLoop(Hit(g2, a, t), i + 1, deltaTime)
                    ELSE TroopLoop([g2 EXCEPT !.lines = @ \ {id}], i + 1, deltaTime)

\* Game.updateTroops
UpdateTroops(g, deltaTime) == TroopLoop([g EXCEPT !.lines = {}], 1, deltaTime)

\* Game.update: updateEnemies, then updateTroops; mid is the state the
\* attack phase starts from, end the state the tick leaves
UpdateTroopsFirst(g, deltaTime) ==
  [mid |-> g, end |-> UpdateEnemies(UpdateTroops(g, deltaTime), deltaTime)]

Update(g, deltaTime) ==
  LET mid == UpdateEnemies(g, deltaTime)
  IN  [mid |-> mid, end |-> UpdateTroops(mid, deltaTime)]

----------------------------------------------------------------------------
(* Game.placeTroop, Game.action, Game.restartGame *)

\* the reason placeTroop returns early, "ok" when it places the troop;
\* type "" stands for null
PlaceOutcomeNoMoneyCheck(g, x, y, type) ==
  IF type = "" THEN "notype"
  ELSE IF ~TileExists(x, y) THEN "notile"
  ELSE IF <<x, y>> \in g.occupied THEN "occupied"
  ELSE "ok"

PlaceOutcome(g, x, y, type) ==
  IF type = "" THEN "notype"
  ELSE IF ~TileExists(x, y) THEN "notile"
  ELSE IF <<x, y>> \in g.occupied THEN "occupied"
  ELSE IF g.money < TROOP_CONFIG[type].cost THEN "nomoney"
  ELSE "ok"

\* lines 699-723: the placement proper
DoPlaceNoOccupy(g, x, y, type) ==
  LET cfg   == TROOP_CONFIG[type]
      troop == [id |-> g.nextTroopId, type |-> type, x |-> x, y |-> y,
                level |-> 1, range |-> cfg.range, damage |-> cfg.damage,
                fireRate10 |-> cfg.fireRate10, cost |-> cfg.cost, target |-> -1]
      a     == Len(g.heap) + 1
  IN  SaveState([g EXCEPT !.money = @ - cfg.cost,
                          !.heap = Append(@, troop),
                          !.tcTroops = Append(@, a),
                          !.gameTroops = Append(@, a),
                          !.psTroops = Append(@, a),
                          !.nextTroopId = @ + 1])

DoPlace(g, x, y, type) ==
  LET cfg   == TROOP_CONFIG[type]
      troop == [id |-> g.nextTroopId, type |-> type, x |-> x, y |-> y,
                level |-> 1, range |-> cfg.range, damage |-> cfg.damage,
                fireRate10 |-> cfg.fireRate10, cost |-> cfg.cost, target |-> -1]
      a     == Len(g.heap) + 1
  IN  SaveState([g EXCEPT !.money = @ - cfg.cost,
                          !.occupied = @ \cup {<<x, y>>},
                          !.heap = Append(@, troop),
                          !.tcTroops = Append(@, a),
                          !.gameTroops = Append(@, a),
                          !.psTroops = Append(@, a),
                          !.nextTroopId = @ + 1])

\* Game.placeTroop(x, y, type)
PlaceTroopChargeAnyway(g, x, y, type) ==
  IF PlaceOutcome(g, x, y, type) \in {"ok", "nomoney"}
  THEN DoPlace(g, x, y, type) ELSE g

PlaceTroop(g, x, y, type) ==
  IF PlaceOutcome(g, x, y, type) = "ok" THEN DoPlace(g, x, y, type) ELSE g

\* Game.restartGame: Game.enemies is what it animates and counts
RestartGame(g) ==
  [g EXCEPT !.state = "resetting", !.pendingRestart = @ + 1]

\* the callback scheduled by restartGame
RestartCallbackToReady(g) ==
  [g EXCEPT !.gameEnemies = SubSeq(@, 1, IF Len(@) > 0 THEN 1 ELSE 0),
            !.pendingRestart = @ - 1,
            !.state = "ready"]

RestartCallback(g) ==
  StartGame([g EXCEPT !.gameEnemies = SubSeq(@, 1, IF Len(@) > 0 THEN 1 ELSE 0),
                      !.pendingRestart = @ - 1])

\* Game.action
GameAction(g) ==
  CASE g.state = "ready" -> StartGame(g)
    [] g.state = "ended" -> RestartGame(g)
    [] OTHER -> g

----------------------------------------------------------------------------
(* Inputs of the exploration *)

\* elapsed times handed to Game.update by the ticker
DeltaSet == {1000}

\* placements tried by the player, as <<x, y, type>>: two free tiles, the
\* rock at (3, 2), a tile off the grid, and a click with no selected type
PlaceInputs ==
  { <<1, 2, "infantry">>, <<2, 4, "cannon">>, <<3, 2, "cannon">>,
    <<10, 0, "infantry">>, <<1, 2, "">> }

----------------------------------------------------------------------------
(* The game *)

\* the state Game.prepare leaves when no snapshot is restored, with the
\* ticker started by Game.start()
Fresh ==
  [state |-> "ready", money |-> StartMoney, lives |-> StartLives,
   currentWave |-> 0, psTroops |-> << >>, occupied |-> {},
   heap |-> << >>, tcTroops |-> << >>, gameTroops |-> << >>,
   timers |-> << >>, lines |-> {}, enemies |-> << >>, meshes |-> {},
   gameEnemies |-> << >>, waveInProgress |-> FALSE, waveTimer |-> 0,
   waveConfig |-> << >>, waveIndex |-> -1, pendingNextWave |-> 0,
   pendingRestart |-> 0, running |-> TRUE, hasUser |-> TRUE, net |-> {},
   nextEnemyId |-> 1, nextTroopId |-> 1, nextMsgId |-> 1, fate |-> << >>]

InitWith(g) ==
  /\ state = g.state
  /\ money = g.money
  /\ lives = g.lives
  /\ currentWave = g.currentWave
  /\ psTroops = g.psTroops
  /\ occupied = g.occupied
  /\ troopHeap = g.heap
  /\ tcTroops = g.tcTroops
  /\ gameTroops = g.gameTroops
  /\ troopAttackTimers = g.timers
  /\ activeTargetLines = g.lines
  /\ ecEnemies = g.enemies
  /\ ecMeshes = g.meshes
  /\ gameEnemies = g.gameEnemies
  /\ waveInProgress = g.waveInProgress
  /\ waveTimer = g.waveTimer
  /\ currentWaveConfig = g.waveConfig
  /\ currentWaveIndex = g.waveIndex
  /\ pendingNextWave = g.pendingNextWave
  /\ pendingRestart = g.pendingRestart
  /\ tickerRunning = g.running
  /\ hasUser = g.hasUser
  /\ net = g.net
  /\ nextEnemyId = g.nextEnemyId
  /\ nextTroopId = g.nextTroopId
  /\ nextMsgId = g.nextMsgId
  /\ fate = g.fate

NoHist == [calls |-> 0, total |-> 0, sessions |-> 1, saved |-> << >>]

Init ==
  /\ InitWith(Fresh)
  /\ store = {}
  /\ hist = NoHist
  /\ probe = [op |-> "prepare"]

\* enemies that stand on the last waypoint of the path 'main'
AtEnd(list) ==
  {list[i].id : i \in {k \in 1..Len(list) :
                         list[k].pathIndex >= Len(GroundPath.waypoints) - 1}}

\* every placed troop's attack timer is above the exploration bound
IdleBound ==
  \A a \in 1..Len(troopHeap) :
     TimerOf(troopAttackTimers, troopHeap[a].id) > -(MaxIdleTicks * 1000)

\* history: the pairs << troop id, enemy id >> of an infantry that is off
\* cooldown in the attack phase of a tick by deltaTime which starts from g,
\* and the live enemy TroopController.attack picks for it among the
\* EnemyController's enemies
DueInRange(g, deltaTime) ==
  LET due == {i \in 1..Len(g.tcTroops) :
                /\ g.heap[g.tcTroops[i]].type = "infantry"
                /\ TimerOf(g.timers, g.heap[g.tcTroops[i]].id) - deltaTime <= 0
                /\ Attack(g.heap[g.tcTroops[i]], g.enemies) # 0}
  IN  {<< g.heap[g.tcTroops[i]].id,
          g.enemies[Attack(g.heap[g.tcTroops[i]], g.enemies)].id >> : i \in due}

\* history: the pairs << troop id, enemy id >> of a troop of any type that
\* is off cooldown in the attack phase of a tick by deltaTime which starts
\* from g, and the enemy closest to it among the EnemyController's live
\* enemies within its range
Eligible(g, deltaTime) ==
  LET due == {i \in 1..Len(g.tcTroops) :
                /\ TimerOf(g.timers, g.heap[g.tcTroops[i]].id) - deltaTime <= 0
                /\ Attack(g.heap[g.tcTroops[i]], g.enemies) # 0}
  IN  {<< g.heap[g.tcTroops[i]].id,
          g.enemies[Attack(g.heap[g.tcTroops[i]], g.enemies)].id >> : i \in due}

\* history: the ids of the troops that have no live enemy of the
\* EnemyController within range in g
Idle(g) ==
  {g.heap[g.tcTroops[i]].id : i \in {j \in 1..Len(g.tcTroops) :
                                     Attack(g.heap[g.tcTroops[j]], g.enemies) = 0}}

\* the troop of the TroopController with the given id
TroopById(g, id) ==
  g.heap[CHOOSE a \in 1..Len(g.heap) : g.heap[a].id = id]

\* the damage of the troops of a set of << troop id, enemy id >> pairs
RECURSIVE SumDamage(_, _)
SumDamage(g, pairs) ==
  IF pairs = {} THEN 0
  ELSE LET p == CHOOSE q \in pairs : TRUE
       IN  TroopById(g, p[1]).damage + SumDamage(g, pairs \ {p})

\* one frame of the ticker: Game.update(deltaTime), explored while fewer
\* than maxId enemies have been spawned
TickUpTo(maxId) ==
  /\ tickerRunning
  /\ state # "loading"
  /\ IdleBound
  /\ nextEnemyId <= maxId
  /\ \E deltaTime \in DeltaSet :
        LET u == Update(Cur, deltaTime)
        IN  /\ Commit(u.end)
            /\ probe' = [op |-> "tick", deltaTime |-> deltaTime,
                         idle |-> Idle(u.mid),
                         atEndBefore |-> AtEnd(ecEnemies),
                         liveAtAttack |-> LiveIds(u.mid),
                         dueInRange |-> DueInRange(u.mid, deltaTime),
                         atEndAtAttack |-> AtEnd(u.mid.enemies)]
  /\ UNCHANGED << store, hist >>

Tick == TickUpTo(MaxEnemies)

\* a click or drop on the map: Game.placeTroop(x, y, type), with one of
\* the given inputs
PlaceFrom(inputs) ==
  /\ currentWaveIndex < MaxPlaceWave
  /\ \E in \in inputs :
        /\ Commit(PlaceTroop(Cur, in[1], in[2], in[3]))
        /\ probe' = [op |-> "place", x |-> in[1], y |-> in[2], type |-> in[3],
                     outcome |-> PlaceOutcome(Cur, in[1], in[2], in[3])]
  /\ UNCHANGED << store, hist >>

Place == PlaceFrom(PlaceInputs)

\* a touch, click or space bar: Game.action()
PlayerAction ==
  /\ state \in {"ready", "ended"}
  /\ currentWaveIndex < MaxWaveIndex
  /\ Commit(GameAction(Cur))
  /\ probe' = [op |-> "action", stateBefore |-> state]
  /\ UNCHANGED << store, hist >>

\* the timeout set at wave completion fires: startNextWave()
NextWaveTimeout ==
  /\ pendingNextWave > 0
  /\ currentWaveIndex < MaxWaveIndex
  /\ Commit(StartNextWave([Cur EXCEPT !.pendingNextWave = @ - 1]))
  /\ probe' = [op |-> "nextWave", stateBefore |-> state]
  /\ UNCHANGED << store, hist >>

\* the timeout set by restartGame fires
RestartTimeout ==
  /\ pendingRestart > 0
  /\ currentWaveIndex < MaxWaveIndex
  /\ Commit(RestartCallback(Cur))
  /\ probe' = [op |-> "restart", stateBefore |-> state]
  /\ UNCHANGED << store, hist >>

Next == Tick \/ Place \/ PlayerAction \/ NextWaveTimeout \/ RestartTimeout

Spec == Init /\ [][Next]_vars

----------------------------------------------------------------------------
(* Properties of the game *)

RECURSIVE SumLost(_, _)
SumLost(f, n) == IF n = 0 THEN 0 ELSE f[n].lost + SumLost(f, n - 1)

Live == {ecEnemies[i].id : i \in 1..Len(ecEnemies)}

\* C1: after every tick the player's lives are not negative
C1_LivesNonNegative == probe.op = "tick" => lives >= 0

\* C2: money is never negative; money decreases only in a placement that
\* passed the check money >= cost, and then by that cost
C2_MoneyNonNegative ==
  [][ /\ money' >= 0
      /\ money' < money =>
           /\ probe'.op = "place" /\ probe'.outcome = "ok"
           /\ Len(troopHeap') = Len(troopHeap) + 1
           /\ money' = money - troopHeap'[Len(troopHeap')].cost ]_vars

\* the player has spent all the money on troops
C2_Witness ==
  probe.op = "place" /\ probe.outcome = "ok" /\ money = 0 /\ Len(tcTroops) = 2

\* C3: an enemy that stood on the last waypoint when a tick began is gone
\* after the tick; it cost one life, exactly once, and the lives lost are
\* exactly the enemies that completed the path
C3_PathEndOnce ==
  /\ \A id \in DOMAIN fate :
        /\ fate[id].lost <= 1
        /\ fate[id].lost = 1 => id \notin Live /\ id \notin ecMeshes
  /\ lives = StartLives - SumLost(fate, Len(fate))
  /\ probe.op = "tick" =>
        \A id \in probe.atEndBefore : fate[id].lost = 1 /\ id \notin Live

\* two enemies completed the path, each for one life
C3_Witness ==
  /\ probe.op = "tick"
  /\ Cardinality({id \in DOMAIN fate : fate[id].lost = 1}) = 2
  /\ lives = StartLives - 2
  /\ Live # {}

\* C4 as stated: an enemy that has arrived at the last waypoint is removed
\* before the attack phase of the same tick, so that none stands on the last
\* waypoint in the collection the attack phase starts from
C4_RemovedInArrivalTick ==
  probe.op = "tick" => probe.atEndAtAttack = {}

\* C4 amended: an enemy that stands on the last waypoint when a tick begins
\* is removed, with its life loss and no reward, before that tick's attack
\* phase; an enemy the tick itself snaps onto the last waypoint stays live,
\* with no life lost yet, through that tick's attack phase
C4_RemovedBeforeAttack ==
  probe.op = "tick" =>
     /\ probe.atEndBefore \cap probe.liveAtAttack = {}
     /\ \A id \in probe.atEndBefore : fate[id].lost = 1 /\ fate[id].reward = 0
     /\ probe.atEndAtAttack \subseteq probe.liveAtAttack
     /\ \A id \in probe.atEndAtAttack : fate[id].lost = 0

\* with a unit placed, a tick removed one enemy at the path's end and
\* snapped the next one onto it
C4_Witness ==
  /\ probe.op = "tick" /\ Len(tcTroops) > 0
  /\ probe.atEndBefore # {} /\ probe.atEndAtAttack # {}

\* C5: an enemy is out of the live collection iff it left it, which it does
\* at most once, and then by exactly one of path completion and kill
C5_LeavesOnce ==
  \A id \in DOMAIN fate :
     /\ fate[id].left <= 1
     /\ id \in Live <=> fate[id].left = 0
     /\ fate[id].lost + fate[id].reward = fate[id].left
     /\ id \in ecMeshes <=> id \in Live

\* some enemy left by path completion while others are still on the path
C5_Witness ==
  /\ \E id \in DOMAIN fate : fate[id].left = 1 /\ fate[id].lost = 1
  /\ \E id \in DOMAIN fate : fate[id].left = 0 /\ id \in Live
  /\ probe.op = "tick" /\ probe.atEndBefore # {} /\ Len(tcTroops) = 0

\* C10: a placement attempt refused for lack of money changes nothing
C10_NoMoneyNoChange ==
  [][ (probe'.op = "place" /\ probe'.outcome = "nomoney") =>
        UNCHANGED << money, occupied, troopHeap, tcTroops, gameTroops, psTroops,
                     lives, currentWave, troopAttackTimers, net, nextTroopId,
                     state >> ]_vars

\* a placement was refused for lack of money
C10_Witness ==
  /\ probe.op = "place" /\ probe.outcome = "nomoney"
  /\ money < 10 /\ <<1, 2>> \notin occupied

\* what a placement can change of the player's money, the tiles and the
\* three troop lists
placeFrame ==
  << money, occupied, troopHeap, tcTroops, gameTroops, psTroops >>

\* C11: a placement attempt on a tile with an obstacle changes neither the
\* money nor the tiles' occupancy nor any troop list
C11_ObstacleRejected ==
  [][ (probe'.op = "place" /\ Obstacle(probe'.x, probe'.y) # "none")
      => UNCHANGED placeFrame ]_vars

\* no two troops of the list stand on the same tile
NoSharedTile(heap, list) ==
  \A i, j \in 1..Len(list) :
     i # j => << heap[list[i]].x, heap[list[i]].y >>
              # << heap[list[j]].x, heap[list[j]].y >>

\* C12: a placement attempt on an occupied tile or outside the grid changes
\* neither the money nor the tiles' occupancy nor any troop list, and no
\* two of the player's troops ever stand on the same tile
C12_OccupiedOrOutsideRejected ==
  [][ /\ (probe'.op = "place" /\ probe'.outcome \in {"occupied", "notile"})
           => UNCHANGED placeFrame
      /\ NoSharedTile(troopHeap', psTroops')
      /\ NoSharedTile(troopHeap', tcTroops') ]_vars

\* the troops of a list, by value
TroopsOf(list) == [i \in 1..Len(list) |-> troopHeap[list[i]]]

\* C13: a placement that passes every check takes exactly the type's cost
\* from the money, marks exactly the tile occupied, which was not, and
\* appends one troop of that type at that tile, the same object, to each of
\* the three troop lists
C13_PlacementEffect ==
  [][ (probe'.op = "place" /\ probe'.outcome = "ok") =>
        LET a == Len(troopHeap) + 1
        IN  /\ money >= TROOP_CONFIG[probe'.type].cost
            /\ money' = money - TROOP_CONFIG[probe'.type].cost
            /\ <<probe'.x, probe'.y>> \notin occupied
            /\ occupied' = occupied \cup {<<probe'.x, probe'.y>>}
            /\ Len(troopHeap') = a
            /\ SubSeq(troopHeap', 1, a - 1) = troopHeap
            /\ troopHeap'[a].x = probe'.x /\ troopHeap'[a].y = probe'.y
            /\ troopHeap'[a].type = probe'.type /\ troopHeap'[a].level = 1
            /\ tcTroops' = Append(tcTroops, a)
            /\ gameTroops' = Append(gameTroops, a)
            /\ psTroops' = Append(psTroops, a) ]_vars

\* the live enemy with the id
EnemyById(id) == ecEnemies[CHOOSE i \in 1..Len(ecEnemies) : ecEnemies[i].id = id]

\* C14: whenever the attack phase of a tick finds an infantry off cooldown
\* and a live enemy within its range, the attack succeeds: the cooldown
\* of 1000 / fireRate ms starts, and the enemy has lost health or has died
\* with its reward paid (so that a goblin of health 5 dies at the fifth
\* such attack)
C14_InRangeEnemyAttacked ==
  probe.op = "tick" =>
     \A p \in probe.dueInRange :
        /\ TimerOf(troopAttackTimers, p[1]) = CooldownMs(TROOP_CONFIG["infantry"].fireRate10)
        /\ IF p[2] \in Live
           THEN EnemyById(p[2]).health < ENEMY_CONFIG[EnemyById(p[2]).type].health
           ELSE fate[p[2]].reward = 1

\* C22: in every tick, every enemy live when the attack phase starts loses
\* exactly the damage of the units that are off cooldown and have it as
\* their closest live enemy in range (it is removed when that takes its
\* health to 0 or below), and loses nothing when there is no such unit
C22_OneDamagePerEligibleUnit ==
  [][ probe'.op = "tick" =>
        LET mid == UpdateEnemies(Cur, probe'.deltaTime)
            el  == Eligible(mid, probe'.deltaTime)
            killed == LiveIds(mid) \ {ecEnemies'[k].id : k \in 1..Len(ecEnemies')}
        IN  \A i \in 1..Len(mid.enemies) :
              LET e   == mid.enemies[i]
                  dmg == SumDamage(mid, {p \in el : p[2] = e.id})
              IN  IF e.health - dmg <= 0 THEN e.id \in killed
                  ELSE killed = {} =>
                         \E k \in 1..Len(ecEnemies') :
                            /\ ecEnemies'[k].id = e.id
                            /\ ecEnemies'[k].health = e.health - dmg ]_vars

\* C24 as stated: a tick leaves the countdown of a troop with no live
\* enemy within range as it was
C24_IdleCooldownUntouched ==
  [][ probe'.op = "tick" =>
        \A id \in probe'.idle :
           TimerOf(troopAttackTimers', id) = TimerOf(troopAttackTimers, id) ]_vars

\* C24 amended: a troop with no live enemy within range does not attack
\* (its countdown is not set to 1000 / fireRate, it has no target line and
\* no target), and its countdown goes down by the tick's elapsed time all
\* the same, also below 0
C24_IdleCooldownDrains ==
  [][ probe'.op = "tick" =>
        \A id \in probe'.idle :
           /\ TimerOf(troopAttackTimers', id)
                = TimerOf(troopAttackTimers, id) - probe'.deltaTime
           /\ id \notin activeTargetLines'
           /\ TroopById(Cur, id).target \in {-1, 0}
                 => TroopById([Cur EXCEPT !.heap = troopHeap'], id).target \in {-1, 0}
      ]_vars

\* an infantry with no enemy in range has idled through two ticks and its
\* countdown stands at -2000 ms
C24_Witness ==
  /\ probe.op = "tick" /\ Len(tcTroops) = 1
  /\ troopHeap[tcTroops[1]].type = "infantry"
  /\ troopHeap[tcTroops[1]].id \in probe.idle
  /\ TimerOf(troopAttackTimers, troopHeap[tcTroops[1]].id) = -2000

\* an infantry was placed with money 100, which left 90
C13_Witness ==
  /\ probe.op = "place" /\ probe.outcome = "ok" /\ probe.type = "infantry"
  /\ money = StartMoney - 10 /\ occupied = {<<probe.x, probe.y>>}
  /\ Len(psTroops) = 1

----------------------------------------------------------------------------
(* The wave sequencer on its own: a WaveManager and its callers *)

\* what a call on the WaveManager leaves alone
waveRest ==
  << state, money, lives, currentWave, psTroops, occupied, troopHeap,
     tcTroops, gameTroops, troopAttackTimers, activeTargetLines, ecEnemies,
     ecMeshes, gameEnemies, waveInProgress, waveTimer, currentWaveConfig,
     pendingNextWave, pendingRestart, tickerRunning, hasUser, net, store, nextEnemyId,
     nextTroopId, nextMsgId, fate >>

\* getNextWave(), followed by the two queries on the state it leaves
WmGetNextWave ==
  /\ hist.total < MaxCalls
  /\ LET r == GetNextWave(currentWaveIndex)
     IN  /\ currentWaveIndex' = r.index
         /\ probe' = [op |-> "getNextWave", wave |-> r.wave,
                      number |-> GetCurrentWaveNumber(r.index),
                      over |-> IsGameOver(r.index)]
  /\ hist' = [hist EXCEPT !.calls = @ + 1, !.total = @ + 1]
  /\ UNCHANGED waveRest

\* reset()
WmReset ==
  /\ currentWaveIndex' = -1
  /\ probe' = [op |-> "reset"]
  /\ hist' = [hist EXCEPT !.calls = 0]
  /\ UNCHANGED waveRest

WmNext == WmGetNextWave \/ WmReset

SpecWave == Init /\ [][WmNext]_vars

\* C8: the k-th getNextWave() on a fresh sequencer, 1 <= k <= 9, returns the
\* k-th wave in authored order (waves 1..8 announce their number and lead
\* with 4 + 2k goblins, the 9th is the boss wave) and getCurrentWaveNumber()
\* is then k; the 10th call returns the 'no more waves' sentinel
C8_KthCallKthWave ==
  (probe.op = "getNextWave" /\ hist.calls <= Len(GenerateWaves) + 1) =>
     LET k == hist.calls
     IN  /\ Len(GenerateWaves) = 9
         /\ k <= 9 => /\ probe.wave = GenerateWaves[k]
                      /\ probe.number = k
                      /\ probe.wave # NoWave
         /\ k <= 8 => /\ probe.wave.announcement = k
                      /\ probe.wave.enemies[1] =
                           [type |-> "goblin", count |-> 4 + 2 * k, pathId |-> ""]
                      /\ ~probe.wave.isBoss
         /\ k = 9 => probe.wave.isBoss
         /\ k = 10 => probe.wave = NoWave

\* the tenth call on a sequencer that was reset once before
C8_Witness ==
  /\ probe.op = "getNextWave" /\ hist.calls = 10 /\ hist.total > 10
  /\ probe.wave = NoWave

\* C9 as stated: after the sentinel was returned the sequencer's state does
\* not change, the index stays at the number of waves
C9_IndexStaysAtLength ==
  (probe.op = "getNextWave" /\ probe.wave = NoWave) =>
     /\ currentWaveIndex = Len(GenerateWaves)
     /\ probe.number = Len(GenerateWaves) + 1

\* C9: once the sentinel was returned every further getNextWave() returns the
\* sentinel and isGameOver() stays true, while the index and
\* getCurrentWaveNumber() grow by one with each call
C9_SentinelStays ==
  (probe.op = "getNextWave" /\ hist.calls > Len(GenerateWaves)) =>
     /\ probe.wave = NoWave
     /\ probe.over
     /\ currentWaveIndex = hist.calls - 1
     /\ probe.number = hist.calls

\* three calls past the last wave
C9_Witness ==
  /\ probe.op = "getNextWave" /\ hist.calls = Len(GenerateWaves) + 3
  /\ probe.wave = NoWave /\ currentWaveIndex = Len(GenerateWaves) + 2

----------------------------------------------------------------------------
(* The enemy registry on its own: an EnemyController and its callers *)

\* spawnEnemy(type, path)
EcSpawn ==
  /\ nextEnemyId <= MaxSpawn
  /\ \E type \in EnemyTypes, path \in {GroundPath, AirPath, EmptyPath} :
        /\ Commit(SpawnEnemyEC(Cur, type, path))
        /\ probe' = [op |-> "spawnEnemy", type |-> type, path |-> path.id,
                     threw |-> Len(path.waypoints) = 0]
  /\ UNCHANGED << store, hist >>

\* removeEnemy(enemyId) with the id of a live, a removed or an unknown
\* enemy; nth counts the calls in a row with the same id, up to 2
EcRemove ==
  /\ \E id \in 1..(MaxSpawn + 1) :
        LET again == probe.op = "removeEnemy" /\ probe.id = id
        IN  /\ Commit(RemoveEnemyEC(Cur, id))
            /\ probe' = [op |-> "removeEnemy", id |-> id,
                         nth |-> IF again THEN 2 ELSE 1,
                         wasLive |-> IF again THEN probe.wasLive
                                     ELSE id \in LiveIds(Cur)]
  /\ UNCHANGED << store, hist >>

EcNext == EcSpawn \/ EcRemove

SpecEnemy == Init /\ [][EcNext]_vars

\* C6: a second removeEnemy with the same id changes nothing: the live
\* collection and the meshes are as the first call left them and sceneRemove
\* is not called again (at most once per enemy in all)
C6_RemoveIdempotent ==
  [][ (probe'.op = "removeEnemy" /\ probe'.nth = 2) =>
         /\ ecEnemies' = ecEnemies
         /\ ecMeshes' = ecMeshes
         /\ fate' = fate
         /\ \A id \in DOMAIN fate' : fate'[id].scene <= 1 ]_vars

\* a live enemy was removed, then removed again, while another one lives on
C6_Witness ==
  /\ probe.op = "removeEnemy" /\ probe.nth = 2 /\ probe.wasLive
  /\ fate[probe.id].scene = 1 /\ fate[probe.id].left = 1
  /\ probe.id \notin ecMeshes
  /\ Len(ecEnemies) = 1

\* the path handed to spawnEnemy, by its id
PathOf(id) == CHOOSE p \in {GroundPath, AirPath, EmptyPath} : p.id = id

\* C21: spawnEnemy on a path with no waypoint throws and leaves the live
\* collection and the meshes as they are; on any other path it appends
\* exactly one enemy, at the first waypoint with pathIndex 0 and the health
\* and speed of its type, and adds its mesh
C21_SpawnEnemy ==
  [][ probe'.op = "spawnEnemy" =>
        LET path == PathOf(probe'.path)
        IN  IF Len(path.waypoints) = 0
            THEN probe'.threw /\ ecEnemies' = ecEnemies /\ ecMeshes' = ecMeshes
            ELSE /\ ~probe'.threw
                 /\ Len(ecEnemies') = Len(ecEnemies) + 1
                 /\ SubSeq(ecEnemies', 1, Len(ecEnemies)) = ecEnemies
                 /\ LET e == ecEnemies'[Len(ecEnemies')]
                    IN  /\ e.type = probe'.type
                        /\ e.x = path.waypoints[1].x * PosScale
                        /\ e.y = path.waypoints[1].y * PosScale
                        /\ e.pathIndex = 0
                        /\ e.health = ENEMY_CONFIG[e.type].health
                        /\ e.speed2 = ENEMY_CONFIG[e.type].speed2
                        /\ e.id \notin LiveIds(Cur)
                        /\ ecMeshes' = ecMeshes \cup {e.id} ]_vars

\* an ogre was spawned on the air path beside a live enemy, and then a
\* spawn on the path with no waypoint was rejected
C21_Witness ==
  /\ probe.op = "spawnEnemy" /\ probe.threw /\ Len(ecEnemies) = 2
  /\ ecEnemies[2].type = "ogre" /\ ecEnemies[2].pathIndex = 0
  /\ ecEnemies[2].x = 0 /\ ecEnemies[2].y = PosScale
  /\ ecMeshes = {ecEnemies[1].id, ecEnemies[2].id}

----------------------------------------------------------------------------
(* Sessions: the game, the server's save-state handler and page reloads *)

\* POST /api/post/save-state handled: the body is parsed and stored again as
\* text under game_state:<postId>:<userId>
ServerSave ==
  /\ \E m \in net :
        /\ m.kind = "save"
        /\ net' = net \ {m}
        /\ store' = {Reencode(m.body)}
        /\ hist' = [hist EXCEPT !.saved = m.src]
  /\ probe' = [op |-> "serverSave"]
  /\ UNCHANGED << state, money, lives, currentWave, psTroops, occupied,
                  troopHeap, tcTroops, gameTroops, troopAttackTimers,
                  activeTargetLines, ecEnemies, ecMeshes, gameEnemies,
                  waveInProgress, waveTimer, currentWaveConfig,
                  currentWaveIndex, pendingNextWave, pendingRestart,
                  tickerRunning, hasUser, nextEnemyId, nextTroopId, nextMsgId,
                  fate >>

\* GET /api/post/load-state: the stored text is parsed and sent as text
LoadState(stored) == Reencode(stored)

\* Game.prepare from the load on (lines 425-439), from the state g the
\* lines before it leave; outcome tells what Devvit.loadState did: "throws"
\* for a failed request, "none" for null (404), "snapshot" for json
PrepareLoad(g, outcome, json) ==
  IF ~g.hasUser THEN [g EXCEPT !.state = "ready"]
  ELSE IF outcome = "throws" THEN [g EXCEPT !.state = "loading"]
  ELSE IF outcome = "none" THEN [g EXCEPT !.state = "ready"]
  ELSE [RestoreState(g, json) EXCEPT !.state = "ready"]

\* the page is loaded again: a new Game and Game.prepare, which restores the
\* stored snapshot if there is one, unless the load request fails (network
\* or server error); it is explored once the server has
\* handled every request sent, and enemy ids and their history go on from
\* those of the sessions before
NewSession ==
  /\ hist.sessions < MaxSessions
  /\ nextEnemyId >= MinReloadEnemies
  /\ net = {}
  /\ LET g0 == [Fresh EXCEPT !.net = net, !.nextMsgId = nextMsgId,
                             !.nextTroopId = nextTroopId,
                             !.nextEnemyId = nextEnemyId, !.fate = fate]
     IN  \E outcome \in {"throws", IF store = {} THEN "none" ELSE "snapshot"} :
            /\ Commit(PrepareLoad([g0 EXCEPT !.state = "loading"], outcome,
                                  IF store = {} THEN << >>
                                  ELSE LoadState(CHOOSE v \in store : TRUE)))
            /\ probe' = [op |-> "newSession",
                         restored |-> outcome = "snapshot",
                         failed |-> outcome = "throws",
                         saved |-> hist.saved,
                         endedBefore |-> state = "ended"]
  /\ hist' = [hist EXCEPT !.sessions = @ + 1]
  /\ UNCHANGED store

SessionTick == TickUpTo(MaxSessionEnemies)

InFlightBound == Cardinality(net) < MaxInFlight

\* placements tried in the persistence specification: the two free tiles
SessionPlaceInputs == { <<1, 2, "infantry">>, <<2, 4, "cannon">> }

SessionPlace == InFlightBound /\ PlaceFrom(SessionPlaceInputs)

SessionAction == InFlightBound /\ PlayerAction

SessionNextWave == InFlightBound /\ NextWaveTimeout

SessionNext ==
  \/ SessionTick \/ SessionPlace \/ SessionAction \/ SessionNextWave
  \/ ServerSave \/ NewSession

SpecSession == Init /\ [][SessionNext]_vars

\* C7: the PlayerState a new session restores from the stored snapshot
\* equals, in money, lives, currentWave and the list of troops, the
\* PlayerState the snapshot was saved from
C7_RoundTrip ==
  (probe.op = "newSession" /\ probe.restored) => PlayerStateOf(Cur) = probe.saved

\* a snapshot with a lost life, a wave started and two troops, one of which
\* has looked for a target, was restored
C7_Witness ==
  /\ probe.op = "newSession" /\ probe.restored
  /\ lives < StartLives /\ currentWave = 1 /\ Len(psTroops) = 2
  /\ \E i \in 1..Len(psTroops) : troopHeap[psTroops[i]].target # -1
  /\ \E i \in 1..Len(psTroops) : troopHeap[psTroops[i]].target = -1

C17_RestartResets ==
  probe.op = "restart" =>
     /\ money = StartMoney /\ lives = StartLives
     /\ currentWave = 1 /\ currentWaveIndex = 0
     /\ ecEnemies = << >>

\* C15: a tile is marked occupied exactly if exactly one of the player's
\* troops stands on it, in every state, the one right after a restore
\* included
C15_OccupiedIffOneUnit ==
  \A x \in 0..(GridWidth - 1), y \in 0..(GridHeight - 1) :
     <<x, y>> \in occupied
       <=> Cardinality({i \in 1..Len(psTroops) :
                          /\ troopHeap[psTroops[i]].x = x
                          /\ troopHeap[psTroops[i]].y = y}) = 1

\* C18: right after a restore the TroopController holds exactly the
\* snapshot's troops, the same as playerState.troops
C18_RestoreOverridesUnits ==
  (probe.op = "newSession" /\ probe.restored) =>
     /\ TroopsOf(tcTroops) = probe.saved.troops
     /\ TroopsOf(tcTroops) = TroopsOf(psTroops)

\* C19: a snapshot load that fails at bootstrap leaves the game in state
\* 'ready' with the default PlayerState
C19_LoadFailureFallsBack ==
  (probe.op = "newSession" /\ probe.failed) =>
     /\ state = "ready"
     /\ money = StartMoney /\ lives = StartLives /\ currentWave = 0
     /\ psTroops = << >>

----------------------------------------------------------------------------
(* Enemies walking the ground path with no unit placed, under a ticker
   that keeps calling Game.update *)

\* enemies spawned on the ground path
MaxPathEnemies == 1

\* positive elapsed times handed to Game.update by the ticker
PathDeltaSet == {200, 500, 1000}

\* Game.spawnEnemy(type, 'main')
PathSpawn ==
  /\ nextEnemyId <= MaxPathEnemies
  /\ \E type \in EnemyTypes :
        /\ Commit(SpawnEnemy(Cur, type, "main"))
        /\ probe' = [op |-> "spawn", type |-> type, path |-> "main"]
  /\ UNCHANGED << store, hist >>

\* one frame of the ticker: Game.update(deltaTime) with deltaTime > 0
PathTick ==
  /\ tickerRunning
  /\ \E deltaTime \in PathDeltaSet :
        \E u \in {Update(Cur, deltaTime)} :
            /\ Commit(u.end)
            /\ probe' = [op |-> "tick",
                         atEndBefore |-> AtEnd(ecEnemies),
                         liveAtAttack |-> LiveIds(u.mid),
                         dueInRange |-> DueInRange(u.mid, deltaTime),
                         atEndAtAttack |-> AtEnd(u.mid.enemies)]
  /\ UNCHANGED << store, hist >>

PathNext == PathSpawn \/ PathTick

\* the ticker calls update on every frame for as long as the page lives
SpecPath == Init /\ [][PathNext]_vars /\ WF_vars(PathTick)

\* C20: with no unit placed, an enemy spawned on the ground path is
\* eventually removed from the live enemies, counted as one lost life and
\* never rewarded; every step takes exactly one life per enemy it removes
\* and leaves the money as it is
C20_EnemyEventuallyLost ==
  /\ \A id \in 1..MaxPathEnemies :
        (id \in Live) ~> /\ id \notin Live /\ id \in DOMAIN fate
                          /\ fate[id].lost = 1 /\ fate[id].reward = 0
  /\ [][ /\ lives' = lives - Cardinality(Live \ Live')
         /\ money' = money ]_vars

\* the first enemy has walked the path and is gone: one life less, the
\* money as at the start
C20_Witness ==
  /\ probe.op = "tick" /\ probe.atEndBefore = {1}
  /\ 1 \notin Live /\ fate[1].lost = 1
  /\ lives = StartLives - 1 /\ money = StartMoney /\ psTroops = << >>

----------------------------------------------------------------------------
(* The attack phase with enemies to attack: Game.update run with the
   enemies field holding the array enemyController.getAll() returns when
   updateTroops starts *)

\* enemies spawned before the exploration of the combat stops
MaxCombatEnemies == 7

\* seconds a troop's countdown may run below 0 before the exploration stops
MaxCombatIdle == 4

\* elapsed times handed to Game.update by the ticker
CombatDeltaSet == {1000}

CombatIdleBound ==
  \A a \in 1..Len(troopHeap) :
     TimerOf(troopAttackTimers, troopHeap[a].id) > -(MaxCombatIdle * 1000)

\* Game.update(deltaTime): updateEnemies, then updateTroops with
\* this.enemies the registry's array
CombatUpdateCheckLast(g, deltaTime) ==
  CHOOSE r \in
    {[mid |-> mid,
      end |-> WaveCompleteCheck(
                UpdateTroops([mid EXCEPT !.gameEnemies = mid.enemies], deltaTime))] :
       mid \in {EnemyLoop(g1, g1.enemies, Len(g1.enemies), deltaTime) :
                  g1 \in {SpawnPhase(g, deltaTime)}}} : TRUE

CombatUpdate(g, deltaTime) ==
  CHOOSE r \in
    {[mid |-> mid, end |-> UpdateTroops([mid EXCEPT !.gameEnemies = mid.enemies],
                                        deltaTime)] :
       mid \in {UpdateEnemies(g, deltaTime)}} : TRUE

CombatTick ==
  /\ tickerRunning
  /\ state # "loading"
  /\ CombatIdleBound
  /\ nextEnemyId <= MaxCombatEnemies
  /\ \E deltaTime \in CombatDeltaSet :
        \E u \in {CombatUpdate(Cur, deltaTime)} :
            /\ Commit(u.end)
            /\ probe' = [op |-> "tick", deltaTime |-> deltaTime,
                         idle |-> Idle(u.mid),
                         atEndBefore |-> AtEnd(ecEnemies),
                         liveAtAttack |-> LiveIds(u.mid),
                         dueInRange |-> DueInRange(u.mid, deltaTime),
                         atEndAtAttack |-> AtEnd(u.mid.enemies)]
  /\ UNCHANGED << store, hist >>

\* placements tried in the combat: an infantry beside the start of the
\* path and a cannon beside its end
CombatPlaceInputs == { <<1, 2, "infantry">>, <<8, 2, "cannon">> }

CombatPlace == PlaceFrom(CombatPlaceInputs)

CombatAction == PlayerAction

CombatNextWave == NextWaveTimeout

CombatNext == CombatTick \/ CombatPlace \/ CombatAction \/ CombatNextWave

SpecCombat == Init /\ [][CombatNext]_vars

\* the health an enemy has, by its id, in a list of enemies
HealthIn(list, id) ==
  list[CHOOSE k \in 1..Len(list) : list[k].id = id].health

----------------------------------------------------------------------------
(* TroopController.attack on its own: a troop and a list of enemies given
   by the caller *)

\* enemies in the list handed to attack
MaxAttackEnemies == 3

\* enemy positions tried, in position units: on the path beside the troop,
\* between two waypoints, straight below the troop at distance 2, and far
AttackPoints ==
  { << 0, 3 * PosScale >>, << 2 * PosScale, 3 * PosScale >>,
    << PosScale, 3 * PosScale >>, << PosScale + PosScale \div 2, 3 * PosScale >>,
    << PosScale, 4 * PosScale >>, << 4 * PosScale, 3 * PosScale >> }

\* troopController.attack(troop, enemies) for a troop of the given type on
\* tile (1, 2) or (2, 4); its argument, its effect on the troop and its
\* result are kept; the result does not depend on earlier calls, so one
\* call is explored
AttackCall ==
  /\ probe.op # "attack"
  /\ \E type \in TroopTypes, tile \in {<<1, 2>>, <<2, 4>>},
        n \in 0..MaxAttackEnemies :
        \E pts \in [1..n -> AttackPoints] :
          LET cfg   == TROOP_CONFIG[type]
              troop == [id |-> 1, type |-> type, x |-> tile[1], y |-> tile[2],
                        level |-> 1, range |-> cfg.range, damage |-> cfg.damage,
                        fireRate10 |-> cfg.fireRate10, cost |-> cfg.cost,
                        target |-> -1]
              enemies == [i \in 1..n |->
                            [id |-> i, type |-> "goblin",
                             health |-> ENEMY_CONFIG["goblin"].health,
                             speed2 |-> ENEMY_CONFIG["goblin"].speed2,
                             x |-> pts[i][1], y |-> pts[i][2], pathIndex |-> 0]]
              t == Attack(troop, enemies)
          IN  /\ troopHeap' = << [troop EXCEPT !.target =
                                    IF t = 0 THEN 0 ELSE enemies[t].id] >>
              /\ tcTroops' = << 1 >>
              /\ gameEnemies' = enemies
              /\ probe' = [op |-> "attack", result |-> t]
  /\ UNCHANGED << state, money, lives, currentWave, psTroops, occupied,
                  gameTroops, troopAttackTimers, activeTargetLines, ecEnemies,
                  ecMeshes, waveInProgress, waveTimer, currentWaveConfig,
                  currentWaveIndex, pendingNextWave, pendingRestart,
                  tickerRunning, hasUser, net, store, nextEnemyId, nextTroopId,
                  nextMsgId, fate, hist >>

SpecAttack == Init /\ [][AttackCall]_vars

\* C25: attack returns none when no enemy of the list is within
\* range * tileSize of the troop's tile centre; otherwise it returns an
\* enemy within range that no enemy within range is closer than, and of
\* those at that smallest distance the first in the list; the troop's
\* currentTargetId is the id of the enemy returned, or null
C25_AttackClosestFirst ==
  probe.op = "attack" =>
    LET troop   == troopHeap[1]
        reach   == troop.range * PosScale
        inRange == {i \in 1..Len(gameEnemies) :
                      DistanceSq(troop, gameEnemies[i]) < reach * reach}
        r       == probe.result
    IN  IF inRange = {} THEN r = 0 /\ troop.target = 0
        ELSE /\ r \in inRange
             /\ \A j \in inRange :
                   /\ DistanceSq(troop, gameEnemies[r])
                        <= DistanceSq(troop, gameEnemies[j])
                   /\ DistanceSq(troop, gameEnemies[r])
                        = DistanceSq(troop, gameEnemies[j]) => r <= j
             /\ troop.target = gameEnemies[r].id

\* an infantry on (1, 2) was given an enemy out of range and then two
\* enemies at the same distance, and it has picked the first of those two
C25_Witness ==
  /\ probe.op = "attack" /\ probe.result = 2 /\ Len(gameEnemies) = 3
  /\ troopHeap[1].type = "infantry" /\ troopHeap[1].x = 1
  /\ gameEnemies[1].x = 4 * PosScale
  /\ gameEnemies[2].x = 0 /\ gameEnemies[3].x = 2 * PosScale

----------------------------------------------------------------------------
(* The game left to run through its waves with no unit placed *)

\* enemies spawned before the exploration of the waves stops
MaxWavesEnemies == 132

\* elapsed times handed to Game.update by the ticker
WavesDeltaSet == {500}

\* one frame of the ticker: Game.update(deltaTime)
WavesTickOf(deltas) ==
  /\ tickerRunning
  /\ nextEnemyId <= MaxWavesEnemies
  /\ \E deltaTime \in deltas :
        \E u \in {Update(Cur, deltaTime)} :
            /\ Commit(u.end)
            /\ probe' = [op |-> "tick", deltaTime |-> deltaTime,
                         idle |-> Idle(u.mid),
                         atEndBefore |-> AtEnd(ecEnemies),
                         liveAtAttack |-> LiveIds(u.mid),
                         dueInRange |-> DueInRange(u.mid, deltaTime),
                         atEndAtAttack |-> AtEnd(u.mid.enemies)]
  /\ UNCHANGED << store, hist >>

WavesTick == WavesTickOf(WavesDeltaSet)

\* the touch, click or space bar that starts the game: Game.action()
WavesAction ==
  /\ state = "ready"
  /\ Commit(GameAction(Cur))
  /\ probe' = [op |-> "action", stateBefore |-> state]
  /\ UNCHANGED << store, hist >>

\* the timeout set at wave completion fires: startNextWave()
WavesNextWave ==
  /\ pendingNextWave > 0
  /\ Commit(StartNextWave([Cur EXCEPT !.pendingNextWave = @ - 1]))
  /\ probe' = [op |-> "nextWave", stateBefore |-> state]
  /\ UNCHANGED << store, hist >>

WavesNext == WavesTick \/ WavesAction \/ WavesNextWave

SpecWaves == Init /\ [][WavesNext]_vars

\* the same run with frames of one second, in which enemies of different
\* speeds come to stand on the last waypoint together
SecondDeltaSet == {1000}

SecondTick == WavesTickOf(SecondDeltaSet)

SecondAction == WavesAction

SecondNextWave == WavesNextWave

SecondNext == SecondTick \/ SecondAction \/ SecondNextWave

SpecSecond == Init /\ [][SecondNext]_vars

\* enemies the groups of a wave have spawned so far
RECURSIVE SpawnedSoFar(_, _)
SpawnedSoFar(config, n) ==
  IF n = 0 THEN 0 ELSE config[n].spawned + SpawnedSoFar(config, n - 1)

\* C28: a tick spawns at most one enemy; it spawns one only while a wave is
\* in progress and the spawn timer, less the elapsed time, is at or below
\* zero, and then leaves the timer at 1000 ms; the enemy spawned belongs to
\* the first group of the wave that is not fully spawned, so every earlier
\* group has spawned == count; and no group has spawned more than its count
C28_SpawnDiscipline ==
  [][probe'.op = "tick" =>
       LET k == FirstPending(currentWaveConfig)
       IN  /\ nextEnemyId' \in {nextEnemyId, nextEnemyId + 1}
           /\ SpawnedSoFar(currentWaveConfig', Len(currentWaveConfig'))
                 - SpawnedSoFar(currentWaveConfig, Len(currentWaveConfig))
                 = nextEnemyId' - nextEnemyId
           /\ nextEnemyId' = nextEnemyId + 1 =>
                 /\ waveInProgress
                 /\ waveTimer - probe'.deltaTime <= 0
                 /\ waveTimer' = SpawnIntervalMs
                 /\ k > 0
                 /\ \A i \in 1..(k - 1) :
                       currentWaveConfig[i].spawned = currentWaveConfig[i].count
                 /\ currentWaveConfig'[k].spawned
                       = currentWaveConfig[k].spawned + 1
                 /\ \E j \in 1..Len(ecEnemies') :
                       /\ ecEnemies'[j].id = nextEnemyId
                       /\ ecEnemies'[j].type = currentWaveConfig[k].type
           /\ (waveInProgress /\ waveTimer - probe'.deltaTime > 0) =>
                 nextEnemyId' = nextEnemyId
           /\ \A i \in 1..Len(currentWaveConfig') :
                 currentWaveConfig'[i].spawned <= currentWaveConfig'[i].count
  ]_vars

\* the tick that spawned the first orc of wave 4, after its twelve goblins
C28_Witness ==
  /\ probe.op = "tick"
  /\ currentWave = 4
  /\ Len(currentWaveConfig) = 2
  /\ currentWaveConfig[1].spawned = 12 /\ currentWaveConfig[1].count = 12
  /\ currentWaveConfig[2].spawned = 1
  /\ waveTimer = SpawnIntervalMs
  /\ \E j \in 1..Len(ecEnemies) :
        ecEnemies[j].id = nextEnemyId - 1 /\ ecEnemies[j].type = "orc"

\* C29: a tick marks the wave in progress complete exactly when, at its
\* wave-complete check, every group is fully spawned and no enemy is live,
\* and a wave already complete is not completed again; completing a wave
\* before the last one schedules one start of the next wave (the 3000 ms
\* timeout), and completing the last defined wave schedules nothing: the
\* check itself ends a game that is being played
C29_WaveCompletion ==
  [][probe'.op = "tick" =>
       LET done == /\ waveInProgress
                   /\ FirstPending(currentWaveConfig') = 0
                   /\ probe'.liveAtAttack = {}
       IN  /\ waveInProgress' = (waveInProgress /\ ~done)
           /\ ~done => pendingNextWave' = pendingNextWave
           /\ (done /\ currentWave < Len(GenerateWaves)) =>
                 pendingNextWave' = pendingNextWave + 1
           /\ (done /\ currentWave >= Len(GenerateWaves)) =>
                 /\ pendingNextWave' = pendingNextWave
                 /\ state = "playing" => state' = "ended"
  ]_vars

\* the score requests among the requests in flight
GameOvers(requests) == {m \in requests : m.kind = "gameOver"}

\* C30: a tick of a game being played in which an arrival at the end of
\* the path brings lives to zero or below leaves the state 'ended' and
\* submits one score, as a loss; and once the state is 'ended', neither a
\* tick nor the start of a next wave (which calls endGame(true) when no wave
\* is left) changes the state or submits a score
C30_LossIsFinal ==
  [][/\ (probe'.op = "tick" /\ state = "playing" /\ lives' < lives
          /\ lives' <= 0) =>
          /\ state' = "ended"
          /\ GameOvers(net) \subseteq GameOvers(net')
          /\ hasUser => \E m \in GameOvers(net') \ GameOvers(net) :
                          /\ ~m.won
                          /\ GameOvers(net') = GameOvers(net) \cup {m}
     /\ (probe'.op \in {"tick", "nextWave"} /\ state = "ended") =>
          /\ state' = "ended"
          /\ GameOvers(net') = GameOvers(net)
  ]_vars

\* the game lost in wave 3 and run on to the end of wave 9: the start of a
\* tenth wave found no wave left and called endGame(true), and the one score
\* in flight is still the loss
C30_Witness ==
  /\ probe.op = "nextWave" /\ probe.stateBefore = "ended"
  /\ currentWaveIndex >= Len(GenerateWaves)
  /\ state = "ended" /\ lives <= 0
  /\ \E m \in GameOvers(net) : GameOvers(net) = {m} /\ ~m.won

----------------------------------------------------------------------------
(* The tick loop stopped and started again: Game.pause and Game.start *)

\* enemies spawned before the exploration of the paused game stops
MaxPauseEnemies == 15

\* elapsed times handed to Game.update by the ticker
PauseDeltaSet == {1000}

\* a stopped Ticker makes no per-frame callback
TickerCallsBack == tickerRunning

\* one frame of the ticker: Game.update(deltaTime)
PauseTick ==
  /\ TickerCallsBack
  /\ nextEnemyId <= MaxPauseEnemies
  /\ \E deltaTime \in PauseDeltaSet :
        \E u \in {Update(Cur, deltaTime)} :
            /\ Commit(u.end)
            /\ probe' = [op |-> "tick", deltaTime |-> deltaTime,
                         idle |-> Idle(u.mid),
                         atEndBefore |-> AtEnd(ecEnemies),
                         liveAtAttack |-> LiveIds(u.mid),
                         dueInRange |-> DueInRange(u.mid, deltaTime),
                         atEndAtAttack |-> AtEnd(u.mid.enemies)]
  /\ UNCHANGED << store, hist >>

\* Game.pause(): this.ticker.stop()
GamePause ==
  /\ tickerRunning
  /\ Commit([Cur EXCEPT !.running = FALSE])
  /\ probe' = [op |-> "pause"]
  /\ UNCHANGED << store, hist >>

\* Game.start(): this.ticker.start()
GameStart ==
  /\ ~tickerRunning
  /\ Commit([Cur EXCEPT !.running = TRUE])
  /\ probe' = [op |-> "start"]
  /\ UNCHANGED << store, hist >>

\* the touch, click or space bar that starts the game: Game.action()
PauseAction ==
  /\ state = "ready"
  /\ Commit(GameAction(Cur))
  /\ probe' = [op |-> "action", stateBefore |-> state]
  /\ UNCHANGED << store, hist >>

\* the timeout set at wave completion fires, whether or not the ticker
\* runs: startNextWave()
PauseNextWave ==
  /\ pendingNextWave > 0
  /\ Commit(StartNextWave([Cur EXCEPT !.pendingNextWave = @ - 1]))
  /\ probe' = [op |-> "nextWave", stateBefore |-> state]
  /\ UNCHANGED << store, hist >>

PauseNext ==
  PauseTick \/ GamePause \/ GameStart \/ PauseAction \/ PauseNextWave

SpecPause == Init /\ [][PauseNext]_vars

\* C31: while the tick loop is stopped, a step other than the player's
\* action starts no wave and leaves the wave number, the spawn progress and
\* spawn timer, the enemies, money and lives as they were
C31_PausedNothingChanges ==
  [][(~tickerRunning /\ probe'.op # "action") =>
       UNCHANGED << currentWave, currentWaveIndex, waveInProgress,
                    currentWaveConfig, waveTimer, ecEnemies, money, lives >>
  ]_vars

----------------------------------------------------------------------------
(* Enemy movement along the path *)

\* C32: every live enemy has 0 <= pathIndex < number of waypoints of the
\* path 'main', the path every enemy is moved along; an enemy enters with
\* pathIndex 0 (1 at most after the tick that spawned and moved it), and a
\* step raises the pathIndex of an enemy by at most 1
C32_PathIndexInRange ==
  [][/\ \A j \in 1..Len(ecEnemies') :
          /\ ecEnemies'[j].pathIndex \in 0..(Len(GroundPath.waypoints) - 1)
          /\ ecEnemies'[j].id \notin Live =>
                ecEnemies'[j].pathIndex
                   \in (IF probe'.op = "tick" THEN {0, 1} ELSE {0})
     /\ \A i \in 1..Len(ecEnemies) : \A j \in 1..Len(ecEnemies') :
          ecEnemies[i].id = ecEnemies'[j].id =>
             ecEnemies'[j].pathIndex - ecEnemies[i].pathIndex \in {0, 1}
  ]_vars

\* an enemy stands on the last waypoint, with the last index, after a tick
C32_Witness ==
  /\ probe.op = "tick"
  /\ \E i \in 1..Len(ecEnemies) :
        /\ ecEnemies[i].pathIndex = Len(GroundPath.waypoints) - 1
        /\ ecEnemies[i].x = (GridWidth - 1) * PosScale

\* C33: of two enemies that complete the path in the same tick, the one
\* spawned earlier loses its life first, so the lives left after its loss
\* are the higher
C33_OldestLostFirst ==
  probe.op = "tick" =>
    \A a \in probe.atEndBefore : \A b \in probe.atEndBefore :
       a < b => fate[a].livesLeft > fate[b].livesLeft

\* C33, as the code has it: the loop runs from the last element of the
\* enemy list to the first, so of two enemies that complete the path in the
\* same tick the one spawned later loses its life first
C33_NewestLostFirst ==
  probe.op = "tick" =>
    \A a \in probe.atEndBefore : \A b \in probe.atEndBefore :
       a < b => /\ fate[a].lost = 1 /\ fate[b].lost = 1
                /\ fate[a].livesLeft = fate[b].livesLeft - 1

\* a tick removed two enemies that stood on the last waypoint
C33_Witness ==
  /\ probe.op = "tick"
  /\ \E a \in probe.atEndBefore : \E b \in probe.atEndBefore :
        a < b /\ fate[a].livesLeft < fate[b].livesLeft

----------------------------------------------------------------------------
(* Game.spawnEnemy with each path id, and the movement that follows *)

\* enemies spawned before the exploration of the paths stops
MaxRouteEnemies == 1

\* elapsed times handed to Game.update by the ticker
RouteDeltaSet == {500, 1000, 5000}

\* path ids a wave group may carry: none ('main' by default) or 'fly'
RoutePathIds == {"", "fly"}

\* Game.spawnEnemy(type, pathId), as updateEnemies calls it for a group
RouteSpawn ==
  /\ nextEnemyId <= MaxRouteEnemies
  /\ \E type \in EnemyTypes : \E pathId \in RoutePathIds :
        /\ Commit(SpawnEnemy(Cur, type, pathId))
        /\ probe' = [op |-> "spawn", type |-> type, path |-> pathId]
  /\ UNCHANGED << store, hist >>

\* one frame of the ticker: Game.update(deltaTime)
RouteTick ==
  /\ tickerRunning
  /\ \E deltaTime \in RouteDeltaSet :
        \E u \in {Update(Cur, deltaTime)} :
            /\ Commit(u.end)
            /\ probe' = [op |-> "tick", deltaTime |-> deltaTime,
                         idle |-> Idle(u.mid),
                         atEndBefore |-> AtEnd(ecEnemies),
                         liveAtAttack |-> LiveIds(u.mid),
                         dueInRange |-> DueInRange(u.mid, deltaTime),
                         atEndAtAttack |-> AtEnd(u.mid.enemies)]
  /\ UNCHANGED << store, hist >>

RouteNext == RouteSpawn \/ RouteTick

SpecRoute == Init /\ [][RouteNext]_vars

Between(a, v, b) == (a <= v /\ v <= b) \/ (b <= v /\ v <= a)

\* C35: in a tick, an enemy that was live before it and is live after it
\* either keeps its pathIndex and moves speed * deltaTime / 1000 tiles
\* straight toward the waypoint at pathIndex + 1 without passing it (the
\* remaining distance was not less than that), or, the remaining distance
\* being less, stands exactly on that waypoint with pathIndex one higher;
\* off the axes the length of the step is exact up to the rounding of the
\* position to 1/2000 of a tile
C35_NoOvershoot ==
  [][probe'.op = "tick" =>
       \A i \in 1..Len(ecEnemies) : \A j \in 1..Len(ecEnemies') :
          ecEnemies[i].id = ecEnemies'[j].id =>
            LET e  == ecEnemies[i]
                n  == ecEnemies'[j]
                t  == GroundPath.waypoints[e.pathIndex + 2]
                tx == t.x * PosScale
                ty == t.y * PosScale
                ms == e.speed2 * probe'.deltaTime
                left2 == (tx - e.x) * (tx - e.x) + (ty - e.y) * (ty - e.y)
                step2 == (n.x - e.x) * (n.x - e.x) + (n.y - e.y) * (n.y - e.y)
            IN  \/ /\ n.pathIndex = e.pathIndex
                   /\ left2 >= ms * ms
                   /\ Between(e.x, n.x, tx) /\ Between(e.y, n.y, ty)
                   /\ step2 <= ms * ms
                   /\ IF e.x = tx \/ e.y = ty THEN step2 = ms * ms
                      ELSE (ms - 2) * (ms - 2) <= step2
                \/ /\ n.pathIndex = e.pathIndex + 1
                   /\ left2 < ms * ms
                   /\ n.x = tx /\ n.y = ty
  ]_vars

\* a tick of five seconds, in which the goblin could have covered ten
\* tiles, has put it on the next waypoint, one tile on
C35_Witness ==
  /\ probe.op = "tick" /\ probe.deltaTime = 5000
  /\ \E i \in 1..Len(ecEnemies) :
        /\ ecEnemies[i].type = "goblin"
        /\ ecEnemies[i].pathIndex = 3
        /\ ecEnemies[i].x = 3 * PosScale
        /\ ecEnemies[i].y = (GridHeight \div 2) * PosScale

----------------------------------------------------------------------------
(* TroopController.upgradeTroop *)

\* upgrades applied before the exploration of upgradeTroop stops
MaxUpgrades == 2

\* a TroopUpgrade: level and cost, and each of range, damage and fireRate
\* (times ten) either absent or present, 0 among the values present
UpgradeInputs ==
  {[level |-> 2, cost |-> 20]} \cup
  {[level |-> 2, cost |-> 20, range |-> r] : r \in {0, 6}} \cup
  {[level |-> 3, cost |-> 30, damage |-> d] : d \in {0, 4}} \cup
  {[level |-> 3, cost |-> 30, fireRate10 |-> f] : f \in {0, 20}} \cup
  {[level |-> 4, cost |-> 40, range |-> r, damage |-> d, fireRate10 |-> 15] :
     r \in {0, 6}, d \in {0, 4}}

\* upgrade[field] is set and truthy: if (upgrade.range) ...
Truthy(upgrade, field) == field \in DOMAIN upgrade /\ upgrade[field] # 0

\* troop.upgrades, an absent property read as the empty list
UpgradesOf(troop) ==
  IF "upgrades" \in DOMAIN troop THEN troop.upgrades ELSE << >>

\* this.troops.find((t) => t.id === troopId): position in the list, 0 if none
FindTroop(g, troopId) ==
  LET hits == {i \in 1..Len(g.tcTroops) : g.heap[g.tcTroops[i]].id = troopId}
  IN  IF hits = {} THEN 0 ELSE CHOOSE i \in hits : \A j \in hits : i <= j

\* the troop after the assignments of upgradeTroop
Upgraded(troop, upgrade) ==
  LET t1 == [troop EXCEPT !.level = upgrade.level]
      t2 == IF Truthy(upgrade, "range")
            THEN [t1 EXCEPT !.range = upgrade.range] ELSE t1
      t3 == IF Truthy(upgrade, "damage")
            THEN [t2 EXCEPT !.damage = upgrade.damage] ELSE t2
      t4 == IF Truthy(upgrade, "fireRate10")
            THEN [t3 EXCEPT !.fireRate10 = upgrade.fireRate10] ELSE t3
  IN  Put(t4, "upgrades", Append(UpgradesOf(troop), upgrade))

\* TroopController.upgradeTroop(troopId, upgrade)
UpgradeTroop(g, troopId, upgrade) ==
  LET i == FindTroop(g, troopId)
  IN  IF i = 0 THEN g
      ELSE [g EXCEPT !.heap[g.tcTroops[i]] = Upgraded(@, upgrade)]

\* upgrades applied so far
RECURSIVE UpgradesDone(_, _)
UpgradesDone(heap, n) ==
  IF n = 0 THEN 0 ELSE Len(UpgradesOf(heap[n])) + UpgradesDone(heap, n - 1)

\* a unit is placed, so that there is one to upgrade
UpgradePlace == PlaceFrom(CombatPlaceInputs)

\* a call of upgradeTroop with the id of a unit or with an id no unit has
UpgradeCall ==
  /\ UpgradesDone(troopHeap, Len(troopHeap)) < MaxUpgrades
  /\ \E troopId \in 1..3 : \E upgrade \in UpgradeInputs :
        /\ Commit(UpgradeTroop(Cur, troopId, upgrade))
        /\ probe' = [op |-> "upgrade", id |-> troopId, upgrade |-> upgrade]
  /\ UNCHANGED << store, hist >>

UpgradeNext == UpgradePlace \/ UpgradeCall

SpecUpgrade == Init /\ [][UpgradeNext]_vars

\* C36: upgradeTroop(id, spec) changes nothing when no unit has the id;
\* otherwise, on the unit with the id and on no other, it sets level from
\* the spec, sets each of range, damage and fireRate that the spec has to
\* the spec's value, whatever the value, leaves each that the spec lacks
\* as it was, appends the spec to the upgrade history, and keeps the
\* position
C36_PartialUpdate ==
  [][probe'.op = "upgrade" =>
       LET i == FindTroop(Cur, probe'.id)
           u == probe'.upgrade
       IN  IF i = 0 THEN troopHeap' = troopHeap
           ELSE LET a == tcTroops[i]
                    t == troopHeap[a]
                    n == troopHeap'[a]
                IN  /\ \A b \in 1..Len(troopHeap) :
                          b # a => troopHeap'[b] = troopHeap[b]
                    /\ n.level = u.level
                    /\ \A f \in {"range", "damage", "fireRate10"} :
                          n[f] = IF f \in DOMAIN u THEN u[f] ELSE t[f]
                    /\ UpgradesOf(n) = Append(UpgradesOf(t), u)
                    /\ n.x = t.x /\ n.y = t.y /\ n.id = t.id
  ]_vars

----------------------------------------------------------------------------
(* Waves, game states and the session *)

\* C37: startNextWave (the only writer of the wave index) runs only when
\* no wave is in progress, every group of the wave before is fully spawned
\* and the game is 'playing' at the call: it is called by the next-wave
\* timeout in 'playing', or by startGame, which has just set 'playing'
C37_NextWaveOnlyBetweenWaves ==
  [][currentWaveIndex' # currentWaveIndex =>
       /\ ~waveInProgress
       /\ FirstPending(currentWaveConfig) = 0
       /\ state = "playing" \/ probe'.op \in {"action", "restart"}
  ]_vars

\* C38: a tick taken in 'ready', 'ended' or 'resetting' spawns no enemy,
\* moves and removes none, damages none, and leaves lives and money as
\* they were
C38_TickOnlyWhilePlaying ==
  [][(probe'.op = "tick" /\ state \in {"ready", "ended", "resetting"}) =>
       UNCHANGED << ecEnemies, nextEnemyId, lives, money >>
  ]_vars

\* C39: within a session (every step but the page load that starts one)
\* playerState.currentWave does not decrease, and it never exceeds the
\* number of defined waves
C39_WaveNumberMonotone ==
  [][/\ probe'.op # "newSession" => currentWave' >= currentWave
     /\ currentWave' <= Len(GenerateWaves)
  ]_vars

----------------------------------------------------------------------------
(* The end of a game and the server: game-over against save-state *)

\* enemies spawned before the exploration of the ended game stops
MaxOverEnemies == 24

\* POST /api/post/game-over: the leaderboard is updated and the saved state
\* of the user and post is deleted
ServerGameOver ==
  /\ \E m \in net :
        /\ m.kind = "gameOver"
        /\ net' = net \ {m}
        /\ store' = {}
  /\ probe' = [op |-> "serverGameOver"]
  /\ UNCHANGED << state, money, lives, currentWave, psTroops, occupied,
                  troopHeap, tcTroops, gameTroops, troopAttackTimers,
                  activeTargetLines, ecEnemies, ecMeshes, gameEnemies,
                  waveInProgress, waveTimer, currentWaveConfig,
                  currentWaveIndex, pendingNextWave, pendingRestart,
                  tickerRunning, hasUser, nextEnemyId, nextTroopId, nextMsgId,
                  fate, hist >>

OverTick == TickUpTo(MaxOverEnemies)

\* the placement tried while the game runs to its end
OverPlaceInputs == { <<1, 2, "infantry">> }

OverPlace == InFlightBound /\ PlaceFrom(OverPlaceInputs)

OverAction == InFlightBound /\ state = "ready" /\ PlayerAction

OverNextWave == InFlightBound /\ NextWaveTimeout

OverSession == NewSession

OverNext ==
  \/ OverTick \/ OverPlace \/ OverAction \/ OverNextWave
  \/ ServerSave \/ ServerGameOver \/ OverSession

SpecOver == Init /\ [][OverNext]_vars

\* C40: while the game is 'ended' and its score request has been handled
\* by the server, no snapshot is stored for the user and post; and a
\* session that follows the ended game, every request handled, restores
\* nothing
C40_NoSnapshotAfterGameOver ==
  /\ (state = "ended" /\ GameOvers(net) = {}) => store = {}
  /\ (probe.op = "newSession" /\ probe.endedBefore) => ~probe.restored

====
